---- MODULE Spec2Model ----
(***************************************************************************)
(* A model of the budget-reminder ingestion and summary engine:            *)
(* helpers.parse_money, the row-to-entity mappers of primitives.py and     *)
(* Summary.to_email_html.                                                  *)
(*                                                                         *)
(* Text is a sequence of one-character strings.  A Python float that was   *)
(* parsed from money text is held as the decimal it was parsed from, an    *)
(* integer number of units of 10^-FracDigits; the binary64 value is the    *)
(* double nearest to that decimal (ToDouble).  Sums of floats, whose       *)
(* result depends on the order of the additions, are computed in binary64. *)
(***************************************************************************)
EXTENDS Integers, Sequences, FiniteSets, TLC

VARIABLES
    value,      \* the argument of the parse_money call under test
    parsed,     \* what that call returned or raised
    rows,       \* the block of rows handed to a mapper
    mapper,     \* the mapper that ran on rows ("none" before the call)
    entities,   \* what the mapper returned or raised
    lookup,     \* the category table main holds (cat2subcat), once built
    sheet,      \* the spreadsheet ranges main queries
    summary,    \* the Summary main built (or why it built none)
    today,      \* date.today(), as a day number
    context,    \* the values the last to_email_html handed to the template
    renders,    \* the number of to_email_html calls so far
    subject,    \* what the last to_email_subject returned
    pc,         \* the positions of the main thread and of the input listener
    quit_flag,  \* debug mode: the quit event
    restart_flag, \* debug mode: the restart event
    port,       \* debug mode: the port of the next server
    httpd,      \* debug mode: the server the loop holds (0 for None)
    servers,    \* debug mode: the servers created so far
    template,   \* the template file: 0 when missing, else its modification time
    last_mtime, \* debug mode: the modification time the loop saw last
    stdin,      \* the lines the user has yet to type
    mode,       \* the mode of the run: "debug", "dry_run" or "send"
    emails,     \* the number of emails handed to the mail server so far
    printed,    \* the number of reports printed so far
    exit_status \* the exit status of the process ("running" until it ends)

moneyVars == <<value, parsed>>
mapperVars == <<rows, mapper, entities, lookup>>
summaryVars == <<sheet, summary, today, context, renders, subject>>
outVars == <<mode, emails, printed, exit_status>>
debugVars ==
    <<pc, quit_flag, restart_flag, port, httpd, servers, template, last_mtime, stdin, outVars>>
vars ==
    <<value, parsed, rows, mapper, entities, lookup, sheet, summary, today, context, renders,
      subject, pc, quit_flag, restart_flag, port, httpd, servers, template, last_mtime,
      stdin, mode, emails, printed, exit_status>>

(***************************************************************************)
(* Bounds of the model                                                     *)
(***************************************************************************)
MaxLen == 3        \* longest enumerated money text
FracDigits == 4    \* decimal places kept by the decimal representation

(***************************************************************************)
(* Text                                                                    *)
(***************************************************************************)
None == << "None" >>          \* Python's None, distinct from every text

Digits == {"0", "1", "2", "3", "4", "5", "6", "7", "8", "9"}

DigitVal(c) ==
    CASE c = "0" -> 0 [] c = "1" -> 1 [] c = "2" -> 2 [] c = "3" -> 3
      [] c = "4" -> 4 [] c = "5" -> 5 [] c = "6" -> 6 [] c = "7" -> 7
      [] c = "8" -> 8 [] c = "9" -> 9

RECURSIVE Pow10(_)
Pow10(k) == IF k = 0 THEN 1 ELSE 10 * Pow10(k - 1)

Units == Pow10(FracDigits)

\* the outcome of a call: a returned value, or the exception it raised
Return(v) == [exc |-> "none", val |-> v]
Raise(e) == [exc |-> e, val |-> 0]

(***************************************************************************)
(* helpers.parse_money                                                     *)
(***************************************************************************)
\* re.sub(r"[^\d\.-]", "", value): every character that is not a digit,
\* '.' or '-' is removed
re_sub_drops_dash(text) == SelectSeq(text, LAMBDA c : c \in Digits \cup {"."})

re_sub(text) == SelectSeq(text, LAMBDA c : c \in Digits \cup {".", "-"})

\* float(s) on a text of digits, '.' and '-': scans an optional leading
\* '-', the integer digits, an optional '.' and the fraction digits; the
\* scan has to end at the end of the text and to have read a digit
RECURSIVE ScanDigits(_, _)
ScanDigits(s, i) ==
    IF i <= Len(s) /\ s[i] \in Digits THEN ScanDigits(s, i + 1) ELSE i

RECURSIVE DigitsValue(_, _, _)
DigitsValue(s, from, to) ==   \* the number written by s[from .. to-1]
    IF to <= from THEN 0
    ELSE 10 * DigitsValue(s, from, to - 1) + DigitVal(s[to - 1])

RECURSIVE FractionValue(_, _, _, _)
FractionValue(s, from, to, place) ==  \* s[from .. to-1] as units, first digit worth place
    IF to <= from \/ place = 0 THEN 0
    ELSE DigitVal(s[from]) * place + FractionValue(s, from + 1, to, place \div 10)

float(s) ==
    LET neg == Len(s) > 0 /\ s[1] = "-"
        i0 == IF neg THEN 2 ELSE 1
        i1 == ScanDigits(s, i0)
        i2 == IF i1 <= Len(s) /\ s[i1] = "." THEN i1 + 1 ELSE i1
        i3 == ScanDigits(s, i2)
        mag == DigitsValue(s, i0, i1) * Units
                 + FractionValue(s, i2, i3, Units \div 10)
    IN  IF i3 <= Len(s) \/ (i1 - i0) + (i3 - i2) = 0
        THEN Raise("ValueError")
        ELSE Return(IF neg THEN 0 - mag ELSE mag)

\* a parse_money that swallows the parse error (the slip C8 excludes)
parse_money_coerces(v) ==
    IF v = None \/ v = << >> THEN Return(0)
    ELSE IF float(re_sub(v)).exc = "none" THEN float(re_sub(v)) ELSE Return(0)

parse_money(v) ==
    IF v = None \/ v = << >>       \* if not value: return 0.0
    THEN Return(0)
    ELSE float(re_sub(v))

(***************************************************************************)
(* Inputs                                                                  *)
(***************************************************************************)
MoneyChars == {"$", ",", "0", "1", "5", ".", "-", "a", " "}

RECURSIVE TextsUpTo(_, _)
TextsUpTo(chars, n) ==
    IF n = 0 THEN {<< >>}
    ELSE LET shorter == TextsUpTo(chars, n - 1)
         IN  shorter \cup {Append(t, c) : t \in shorter, c \in chars}

MoneyExamples ==
    { <<"$", "1", ",", "2", "3", "4", ".", "5", "6">>,
      <<"-", "$", "4", "5", ".", "0", "0">>,
      <<"1", ".", "2", ".", "3">>,
      <<"$", "0", ".", "0", "0">>,
      <<"$", "0", ".", "0", "1">> }

MoneyTexts == TextsUpTo(MoneyChars, MaxLen) \cup MoneyExamples \cup {None}

NotCalled == [exc |-> "not called", val |-> 0]

\* the parts of the state a specification does not use
NoMoneyCall == value = None /\ parsed = NotCalled
NoMapperCall == rows = << >> /\ mapper = "none" /\ entities = NotCalled /\ lookup = NotCalled
NoDebug ==
    /\ pc = [main |-> "off", input |-> "off"]
    /\ quit_flag = FALSE
    /\ restart_flag = FALSE
    /\ port = 0
    /\ httpd = 0
    /\ servers = << >>
    /\ template = 1
    /\ last_mtime = 0
    /\ stdin = << >>
    /\ mode = "send"
    /\ emails = 0
    /\ printed = 0
    /\ exit_status = "running"

NoRun ==
    /\ sheet = << >>
    /\ summary = NotCalled
    /\ today = 0
    /\ context = NotCalled
    /\ renders = 0
    /\ subject = NotCalled
    /\ NoDebug

(***************************************************************************)
(* The parse_money call                                                    *)
(***************************************************************************)
InitMoney ==
    /\ value \in MoneyTexts
    /\ parsed = NotCalled
    /\ NoMapperCall
    /\ NoRun

CallParseMoney ==
    /\ parsed = NotCalled
    /\ parsed' = parse_money(value)
    /\ UNCHANGED <<value, mapperVars, summaryVars, debugVars>>

NextMoney == CallParseMoney

SpecMoney == InitMoney /\ [][NextMoney]_vars

(***************************************************************************)
(* Money text as the claims describe it                                    *)
(***************************************************************************)
Count(s, c) == Cardinality({i \in 1..Len(s) : s[i] = c})

RECURSIVE Residue(_)
Residue(t) ==     \* t without the characters that are not a digit, '.' or '-'
    IF t = << >> THEN << >>
    ELSE IF Head(t) \in Digits \/ Head(t) = "." \/ Head(t) = "-"
         THEN <<Head(t)>> \o Residue(Tail(t))
         ELSE Residue(Tail(t))

WellFormedNumber(r) ==
    /\ Count(r, ".") <= 1
    /\ Count(r, "-") <= 1
    /\ \A i \in 1..Len(r) : r[i] = "-" => i = 1
    /\ \E i \in 1..Len(r) : r[i] \in Digits

DotAt(r) == IF Count(r, ".") = 0 THEN Len(r) + 1
            ELSE CHOOSE i \in 1..Len(r) : r[i] = "."

RECURSIVE PlaceSum(_, _)
PlaceSum(r, i) ==   \* the digits r[1..i], each weighted by its decimal place
    IF i = 0 THEN 0
    ELSE PlaceSum(r, i - 1) +
         ( IF r[i] \notin Digits THEN 0
           ELSE IF i < DotAt(r)
                THEN DigitVal(r[i]) * Pow10(FracDigits + DotAt(r) - i - 1)
                ELSE IF i - DotAt(r) <= FracDigits
                     THEN DigitVal(r[i]) * Pow10(FracDigits - (i - DotAt(r)))
                     ELSE 0 )

NumberOf(r) ==
    IF Len(r) > 0 /\ r[1] = "-" THEN 0 - PlaceSum(r, Len(r)) ELSE PlaceSum(r, Len(r))

Missing(v) == v = None \/ v = << >>

Called == parsed # NotCalled

\* C7: parse_money returns exactly 0 for an empty or missing value, and the
\* number written by the residue (digits, '.', '-' kept, the rest removed)
\* whenever that residue is a valid number: "$1,234.56" gives 1234.56 and
\* "-$45.00" gives -45.00.
C7_ParseMoneyValue ==
    Called =>
        /\ Missing(value) => parsed = Return(0)
        /\ (~Missing(value) /\ WellFormedNumber(Residue(value)))
              => parsed = Return(NumberOf(Residue(value)))
        /\ value = <<"$", "1", ",", "2", "3", "4", ".", "5", "6">>
              => parsed = Return(123456 * (Units \div 100))
        /\ value = <<"-", "$", "4", "5", ".", "0", "0">>
              => parsed = Return(0 - 45 * Units)

C7_Witness ==
    /\ value = <<"-", "$", "4", "5", ".", "0", "0">>
    /\ parsed = Return(0 - 45 * Units)

\* C8: for a non-empty input whose residue is not a valid number (several
\* decimal points, several dashes, a dash that is not leading, or nothing
\* left) parse_money raises and returns no number.
C8_ParseMoneyRaises ==
    (Called /\ ~Missing(value) /\ ~WellFormedNumber(Residue(value)))
        => parsed = Raise("ValueError")

C8_Witness ==
    /\ value \in { <<"1", ".", "2", ".", "3">>, <<"$">>, <<" ", " ">>, <<"1", "-">> }
    /\ parsed = Raise("ValueError")

(***************************************************************************)
(* str.strip, str.lower and the substring test of Python                   *)
(***************************************************************************)
Whitespace == {" ", "\t", "\n"}

RECURSIVE lstrip(_)
lstrip(t) == IF t # << >> /\ Head(t) \in Whitespace THEN lstrip(Tail(t)) ELSE t

RECURSIVE rstrip(_)
rstrip(t) ==
    IF t # << >> /\ t[Len(t)] \in Whitespace THEN rstrip(SubSeq(t, 1, Len(t) - 1)) ELSE t

strip(t) == rstrip(lstrip(t))

UpperCase ==
    <<"A", "B", "C", "D", "E", "F", "G", "H", "I", "J", "K", "L", "M",
      "N", "O", "P", "Q", "R", "S", "T", "U", "V", "W", "X", "Y", "Z">>

LowerCase ==
    <<"a", "b", "c", "d", "e", "f", "g", "h", "i", "j", "k", "l", "m",
      "n", "o", "p", "q", "r", "s", "t", "u", "v", "w", "x", "y", "z">>

lower_char(c) ==
    IF \E i \in 1..26 : UpperCase[i] = c
    THEN LowerCase[CHOOSE i \in 1..26 : UpperCase[i] = c]
    ELSE c

lower(t) == [i \in 1..Len(t) |-> lower_char(t[i])]

\* sub in t
contains(t, sub) ==
    \E i \in 0..(Len(t) - Len(sub)) : SubSeq(t, i + 1, i + Len(sub)) = sub

(***************************************************************************)
(* BssSpent.from_rows and Bss                                              *)
(***************************************************************************)
Bill == <<"b", "i", "l", "l">>
Sav == <<"s", "a", "v">>

\* the label is tested for "sav" before "bill"
Classify_SavFirst(category_str) ==
    IF contains(category_str, Sav) THEN "Savings"
    ELSE IF contains(category_str, Bill) THEN "Bills"
    ELSE "Spending"

Classify(category_str) ==
    IF contains(category_str, Bill) THEN "Bills"
    ELSE IF contains(category_str, Sav) THEN "Savings"
    ELSE "Spending"

\* the label row is left and the amount row is read as the next label
AfterPair_OneRow(i) == i + 1

AfterPair(i) == i + 2       \* i += 2

\* rows are indexed from 1 here: row i is rows[i - 1] of the source
RECURSIVE BssSpent_from_rows_loop(_, _, _)
BssSpent_from_rows_loop(rs, i, result) ==
    IF i > Len(rs) THEN Return(result)
    ELSE IF rs[i] = << >> \/ strip(rs[i][1]) = << >>
    THEN BssSpent_from_rows_loop(rs, i + 1, result)
    ELSE LET category == Classify(lower(strip(rs[i][1])))
             amount == IF i + 1 <= Len(rs)
                       THEN IF rs[i + 1] = << >> THEN Raise("IndexError")
                            ELSE parse_money(rs[i + 1][1])
                       ELSE Return(0)
         IN  IF amount.exc # "none" THEN amount
             ELSE BssSpent_from_rows_loop(rs, AfterPair(i),
                      Append(result, [category |-> category, amount |-> amount.val]))

BssSpent_from_rows(rs) == BssSpent_from_rows_loop(rs, 1, << >>)

Bss_from_rows(rs) == BssSpent_from_rows(rs)

(***************************************************************************)
(* Blocks of categorized-spend rows                                        *)
(***************************************************************************)
MaxFrags == 3      \* label fragments per enumerated label
MaxUnits == 3      \* rows or label/amount pairs per enumerated block

RECURSIVE ConcatsUpTo(_, _)
ConcatsUpTo(parts, n) ==
    IF n = 0 THEN {<< >>}
    ELSE LET shorter == ConcatsUpTo(parts, n - 1)
         IN  shorter \cup {t \o f : t \in shorter, f \in parts}

LabelFragments ==
    { <<"b", "i", "l">>, <<"l">>, <<"B", "I">>, <<"L", "L">>, <<"s", "a">>,
      <<"v">>, <<"S", "A", "V">>, <<"x">>, <<" ">> }

Labels == ConcatsUpTo(LabelFragments, MaxFrags)

LabelBlocks == { << <<l>>, <<<<"$", "5">>>> >> : l \in Labels }

BillsRow == << <<"B", "i", "l", "l", "s">>, << >> >>
SavingsRow == << <<"S", "a", "v", "i", "n", "g", "s">>, << >> >>
GroceriesRow == << <<"G", "r", "o", "c", "e", "r", "i", "e", "s">>, << >> >>

LabelRows == {BillsRow, SavingsRow, GroceriesRow}

AmountRows == { <<<<"0", ".", "1">>>>, <<<<"1", ".", "1">>>>, <<<<"$", "5", "0", "0">>>> }

OtherRows == { << >>, << << >> >>, << <<" ">> >>, << <<"n", "/", "a">> >> }

BssUnits ==
    {<<l, a>> : l \in LabelRows, a \in AmountRows}
        \cup {<<r>> : r \in LabelRows \cup AmountRows \cup OtherRows}

Scenario ==
    << BillsRow, <<<<"$", "5", "0", "0">>>>, SavingsRow, <<<<"$", "2", "0", "0">>>>,
       GroceriesRow, <<<<"$", "1", "5", "0">>>> >>

BssBlocks == ConcatsUpTo(BssUnits, MaxUnits) \cup LabelBlocks \cup {Scenario}

InitBss ==
    /\ rows \in BssBlocks
    /\ mapper = "none"
    /\ entities = NotCalled
    /\ lookup = NotCalled
    /\ NoMoneyCall
    /\ NoRun

CallBssFromRows ==
    /\ mapper = "none"
    /\ mapper' = "Bss"
    /\ entities' = Bss_from_rows(rows)
    /\ UNCHANGED <<rows, lookup, moneyVars, summaryVars, debugVars>>

NextBss == CallBssFromRows

SpecBss == InitBss /\ [][NextBss]_vars

(***************************************************************************)
(* Categorized-spend rows as the claims describe them                      *)
(***************************************************************************)
BlankRow(row) == row = << >> \/ \A i \in 1..Len(row[1]) : row[1][i] \in Whitespace

RECURSIVE Lowered(_)
Lowered(t) ==
    IF t = << >> THEN << >> ELSE <<lower_char(Head(t))>> \o Lowered(Tail(t))

RECURSIVE StartsWith(_, _)
StartsWith(t, sub) ==
    \/ sub = << >>
    \/ t # << >> /\ Head(t) = Head(sub) /\ StartsWith(Tail(t), Tail(sub))

RECURSIVE Has(_, _)
Has(t, sub) == StartsWith(t, sub) \/ (t # << >> /\ Has(Tail(t), sub))

CategoryOfLabel(label) ==
    IF Has(Lowered(label), Bill) THEN "Bills"
    ELSE IF Has(Lowered(label), Sav) THEN "Savings"
    ELSE "Spending"

AmountOfCell(cell) == IF cell = << >> THEN 0 ELSE NumberOf(Residue(cell))

CellParses(cell) == cell = << >> \/ WellFormedNumber(Residue(cell))

BssDone == mapper = "Bss"

PairedBlock ==
    /\ Len(rows) % 2 = 0
    /\ \A i \in 1..Len(rows) : ~BlankRow(rows[i])

\* C5: BssSpent.from_rows consumes rows in label/amount pairs: a block of 2n
\* rows with no blank row gives exactly n entities in input order, the k-th
\* with the category of row 2k and the amount parsed from the first cell of
\* row 2k+1 (rows counted from 0); an amount row is never classified as a
\* label.  When an amount cell does not parse the call raises instead.
C5_PairsConsumed ==
    (BssDone /\ PairedBlock) =>
        IF \A k \in 1..(Len(rows) \div 2) : CellParses(rows[2 * k][1])
        THEN /\ entities.exc = "none"
             /\ Len(entities.val) = Len(rows) \div 2
             /\ \A k \in 1..(Len(rows) \div 2) :
                   /\ entities.val[k].category = CategoryOfLabel(rows[2 * k - 1][1])
                   /\ entities.val[k].amount = AmountOfCell(rows[2 * k][1])
        ELSE entities = Raise("ValueError")

C5_Witness ==
    /\ BssDone
    /\ rows = Scenario
    /\ entities = Return(<< [category |-> "Bills", amount |-> 500 * Units],
                            [category |-> "Savings", amount |-> 200 * Units],
                            [category |-> "Spending", amount |-> 150 * Units] >>)

\* C6: a label is classified case-insensitively: Bills when it contains
\* "bill", otherwise Savings when it contains "sav", otherwise Spending; a
\* label with both substrings is Bills, and every entity has one of the
\* three categories.
C6_Classification ==
    (BssDone /\ entities.exc = "none") =>
        /\ \A k \in 1..Len(entities.val) :
              entities.val[k].category \in {"Bills", "Savings", "Spending"}
        /\ (rows # << >> /\ ~BlankRow(rows[1]))
              => /\ Len(entities.val) >= 1
                 /\ entities.val[1].category = CategoryOfLabel(rows[1][1])

C6_Witness ==
    /\ BssDone
    /\ rows = << <<<<"S", "A", "V", "B", "I", "L", "L">>>>, <<<<"$", "5">>>> >>
    /\ entities = Return(<< [category |-> "Bills", amount |-> 5 * Units] >>)

WithoutBlankRows(rs) == SelectSeq(rs, LAMBDA row : ~BlankRow(row))

\* C19: BssSpent.from_rows never consumes a blank row (an empty row, or a row
\* whose first cell is empty or whitespace) as half of a pair: each blank row
\* is skipped alone, taken neither as a label row nor as the amount row of
\* the label before it, so the result for a block equals the result for the
\* same block with its blank rows removed.
C19_BlankRowsSkipped ==
    BssDone => entities = BssSpent_from_rows(WithoutBlankRows(rows))

(***************************************************************************)
(* Python float arithmetic (IEEE 754 binary64, round to nearest even).     *)
(* A double is [neg, man, e]: the sign, the Precision mantissa bits, most  *)
(* significant (a 1) first, and the exponent of the last mantissa bit;     *)
(* zero has no mantissa bits.  The values of the model are far from the    *)
(* overflow and subnormal ranges.                                          *)
(***************************************************************************)
Precision == 53

Zero == [neg |-> FALSE, man |-> << >>, e |-> 0]

Zeros(n) == [i \in 1..n |-> 0]

RECURSIVE NatBits(_)
NatBits(n) == IF n = 0 THEN << >> ELSE NatBits(n \div 2) \o <<n % 2>>

StripZeros(b) ==
    IF \A i \in 1..Len(b) : b[i] = 0 THEN << >>
    ELSE SubSeq(b, CHOOSE i \in 1..Len(b) : b[i] = 1 /\ \A j \in 1..(i - 1) : b[j] = 0,
                Len(b))

PadLeft(b, n) == Zeros(n - Len(b)) \o b

\* The rows are worked on by halves, the right half first, so that the
\* depth of the evaluation stays logarithmic in their length.

\* a + b + carry on the positions lo..hi of two bit rows
RECURSIVE AddRange(_, _, _, _, _)
AddRange(a, b, lo, hi, carry) ==
    IF lo = hi
    THEN [bits |-> <<(a[lo] + b[lo] + carry) % 2>>, carry |-> (a[lo] + b[lo] + carry) \div 2]
    ELSE LET mid == (lo + hi) \div 2
             right == AddRange(a, b, mid + 1, hi, carry)
             left == IF right.carry = 0 THEN AddRange(a, b, lo, mid, 0)
                     ELSE AddRange(a, b, lo, mid, 1)
         IN  [bits |-> left.bits \o right.bits, carry |-> left.carry]

\* a + b + carry of two bit rows of one length; the result is one bit longer
AddBits(a, b, carry) ==
    IF a = << >> THEN <<carry>>
    ELSE <<AddRange(a, b, 1, Len(a), carry).carry>> \o AddRange(a, b, 1, Len(a), carry).bits

\* a - b - borrow on the positions lo..hi of two bit rows
RECURSIVE SubRange(_, _, _, _, _)
SubRange(a, b, lo, hi, borrow) ==
    IF lo = hi
    THEN [bits |-> <<(a[lo] - b[lo] - borrow + 2) % 2>>,
          borrow |-> IF a[lo] - b[lo] - borrow < 0 THEN 1 ELSE 0]
    ELSE LET mid == (lo + hi) \div 2
             right == SubRange(a, b, mid + 1, hi, borrow)
             left == IF right.borrow = 0 THEN SubRange(a, b, lo, mid, 0)
                     ELSE SubRange(a, b, lo, mid, 1)
         IN  [bits |-> left.bits \o right.bits, borrow |-> left.borrow]

\* a - b of two bit rows of one length, a >= b
SubBits(a, b) == IF a = << >> THEN << >> ELSE SubRange(a, b, 1, Len(a), 0).bits

\* a < b for two bit rows of one length
BitsLess(a, b) ==
    \E i \in 1..Len(a) :
        /\ a[i] < b[i]
        /\ \A j \in 1..(i - 1) : a[j] = b[j]

\* the double nearest to (-1)^neg * bits * 2^e (plus a nonzero part below
\* the last bit when sticky), ties to the even mantissa
Round(neg, bits, e, sticky) ==
    LET b == StripZeros(bits)
        n == Len(b)
    IN  IF n = 0 THEN Zero
        ELSE IF n <= Precision
        THEN [neg |-> neg, man |-> b \o Zeros(Precision - n), e |-> e - (Precision - n)]
        ELSE LET keep == SubSeq(b, 1, Precision)
                 e2 == e + (n - Precision)
                 rest == sticky \/ \E i \in (Precision + 2)..n : b[i] = 1
                 up == b[Precision + 1] = 1 /\ (rest \/ keep[Precision] = 1)
                 inc == AddBits(keep, Zeros(Precision), 1)
             IN  IF ~up THEN [neg |-> neg, man |-> keep, e |-> e2]
                 ELSE IF inc[1] = 1
                 THEN [neg |-> neg, man |-> SubSeq(inc, 1, Precision), e |-> e2 + 1]
                 ELSE [neg |-> neg, man |-> Tail(inc), e |-> e2]

\* the binary expansion of r / Units, n >= 1 bits long, and what is left of r
RECURSIVE FracBits(_, _)
FracBits(r, n) ==
    IF n = 1 THEN [bits |-> <<(2 * r) \div Units>>, rest |-> (2 * r) % Units]
    ELSE LET first == FracBits(r, n \div 2)
             second == FracBits(first.rest, n - n \div 2)
         IN  [bits |-> first.bits \o second.bits, rest |-> second.rest]

FracBitCount == 2 * Precision

\* the float that float() returns for the decimal text worth u units
ToDouble(u) ==
    LET m == IF u < 0 THEN 0 - u ELSE u
    IN  Round(u < 0,
              NatBits(m \div Units) \o FracBits(m % Units, FracBitCount).bits,
              0 - FracBitCount,
              FracBits(m % Units, FracBitCount).rest # 0)

FNeg(a) == IF a = Zero THEN Zero ELSE [a EXCEPT !.neg = ~a.neg]

\* a + b
FAdd(a, b) ==
    IF a = Zero THEN b
    ELSE IF b = Zero THEN a
    ELSE LET lo == IF a.e < b.e THEN a.e ELSE b.e
             ra == a.man \o Zeros(a.e - lo)
             rb == b.man \o Zeros(b.e - lo)
             n == IF Len(ra) < Len(rb) THEN Len(rb) ELSE Len(ra)
             xa == PadLeft(ra, n)
             xb == PadLeft(rb, n)
         IN  IF a.neg = b.neg THEN Round(a.neg, AddBits(xa, xb, 0), lo, FALSE)
             ELSE IF BitsLess(xa, xb) THEN Round(b.neg, SubBits(xb, xa), lo, FALSE)
             ELSE Round(a.neg, SubBits(xa, xb), lo, FALSE)

FSub(a, b) == FAdd(a, FNeg(b))

FLess(a, b) == FSub(a, b) # Zero /\ FSub(a, b).neg      \* a < b

\* one step of the long division: the next quotient bit and the doubled rest
DivStep(rem, den) ==
    IF BitsLess(rem, den) THEN [bits |-> <<0>>, rem |-> Tail(rem) \o <<0>>]
    ELSE [bits |-> <<1>>, rem |-> Tail(SubBits(rem, den)) \o <<0>>]

\* n >= 1 quotient bits of rem / den and the rest, rem < 2 * den, rows of one length
RECURSIVE DivBits(_, _, _)
DivBits(rem, den, n) ==
    IF n = 1 THEN DivStep(rem, den)
    ELSE LET first == DivBits(rem, den, n \div 2)
             second == DivBits(first.rem, den, n - n \div 2)
         IN  [bits |-> first.bits \o second.bits, rem |-> second.rem]

\* a / b, b nonzero
FDiv(a, b) ==
    IF a = Zero THEN Zero
    ELSE LET rem == <<0, 0>> \o a.man
             den == <<0, 0>> \o b.man
             n == Precision + 2
             q == DivBits(rem, den, n)
         IN  Round(a.neg # b.neg, q.bits, a.e - b.e - (n - 1),
                   \E i \in 1..Len(q.rem) : q.rem[i] = 1)

\* bits * k for a natural k, as a bit row
RECURSIVE MulBits(_, _)
MulBits(bits, k) ==
    IF k = 0 THEN << >>
    ELSE LET twice == MulBits(bits, k \div 2) \o <<0>>
             n == (IF Len(twice) < Len(bits) THEN Len(bits) ELSE Len(twice))
         IN  IF k % 2 = 0 THEN twice
             ELSE AddBits(PadLeft(twice, n), PadLeft(bits, n), 0)

\* a * k for a natural k
FMulNat(a, k) == IF a = Zero THEN Zero ELSE Round(a.neg, MulBits(a.man, k), a.e, FALSE)

(***************************************************************************)
(* The sums of Bss: sum() adds the amounts from left to right to the       *)
(* integer 0                                                               *)
(***************************************************************************)
RECURSIVE sum(_)
sum(floats) ==
    IF floats = << >> THEN Zero
    ELSE FAdd(sum(SubSeq(floats, 1, Len(floats) - 1)), floats[Len(floats)])

AmountsOf(elements, category) ==
    LET chosen == SelectSeq(elements, LAMBDA bss : bss.category = category)
    IN  [i \in 1..Len(chosen) |-> ToDouble(chosen[i].amount)]

Bss_spending(elements) == sum(AmountsOf(elements, "Spending"))

Bss_bills(elements) == sum(AmountsOf(elements, "Bills"))

Bss_savings(elements) == sum(AmountsOf(elements, "Savings"))

Bss_total(elements) == sum([i \in 1..Len(elements) |-> ToDouble(elements[i].amount)])

\* C4: for every Bss built by Bss.from_rows, spending() + bills() + savings()
\* equals total().
C4_CategorySumsEqualTotal ==
    (BssDone /\ entities.exc = "none") =>
        FAdd(FAdd(Bss_spending(entities.val), Bss_bills(entities.val)),
             Bss_savings(entities.val)) = Bss_total(entities.val)

(***************************************************************************)
(* The filtering mappers: PaymentsOverview, SavingsOverview and            *)
(* TransferOverview.  A cell row[k] of the source is row[k + 1] here; an   *)
(* Optional result is a list of no or one entity.                          *)
(***************************************************************************)
Cell(row, k) == IF k + 1 <= Len(row) THEN Return(row[k + 1]) ELSE Raise("IndexError")

\* a cell that does not parse counts as 0
parse_money_cell_ZeroOnFailure(row, k) ==
    IF Cell(row, k).exc # "none" THEN Cell(row, k)
    ELSE IF parse_money(Cell(row, k).val).exc # "none" THEN Return(0)
    ELSE parse_money(Cell(row, k).val)

\* parse_money(row[k])
parse_money_cell(row, k) ==
    IF Cell(row, k).exc # "none" THEN Cell(row, k) ELSE parse_money(Cell(row, k).val)

\* a from_row that keeps the rows whose amount is zero
PaymentsOverview_from_row_keeps_zero(row) ==
    IF parse_money_cell(row, 1).exc # "none" THEN parse_money_cell(row, 1)
    ELSE Return(<< [category |-> row[1], amount |-> parse_money_cell(row, 1).val] >>)

PaymentsOverview_from_row(row) ==
    LET amount == parse_money_cell(row, 1)
    IN  IF amount.exc # "none" THEN amount
        ELSE IF amount.val = 0 THEN Return(<< >>)
        ELSE Return(<< [category |-> row[1], amount |-> amount.val] >>)

SavingsOverview_from_row(row) ==
    LET amount == parse_money_cell(row, 2)
    IN  IF amount.exc # "none" THEN amount
        ELSE IF amount.val = 0 THEN Return(<< >>)
        ELSE Return(<< [category |-> row[1], amount |-> amount.val] >>)

TransferOverview_from_row(row) ==
    LET amount == parse_money_cell(row, 2)
    IN  IF amount.exc # "none" THEN amount
        ELSE IF amount.val = 0 THEN Return(<< >>)
        ELSE Return(<< [from_account |-> row[1], to_account |-> row[2],
                        amount |-> amount.val] >>)

\* [r for row in rows for r in [from_row(row)] if r is not None]
RECURSIVE from_range(_)
from_range(made) ==      \* made: the outcome of from_row for each row, in order
    IF made = << >> THEN Return(<< >>)
    ELSE LET r == Head(made)
             rest == from_range(Tail(made))
         IN  IF r.exc # "none" THEN r
             ELSE IF rest.exc # "none" THEN rest
             ELSE Return(r.val \o rest.val)

PaymentsOverview_from_range(rs) == from_range([i \in 1..Len(rs) |-> PaymentsOverview_from_row(rs[i])])

SavingsOverview_from_range(rs) == from_range([i \in 1..Len(rs) |-> SavingsOverview_from_row(rs[i])])

TransferOverview_from_range(rs) == from_range([i \in 1..Len(rs) |-> TransferOverview_from_row(rs[i])])

(***************************************************************************)
(* Blocks of overview rows                                                 *)
(***************************************************************************)
MaxOverviewRows == 2

OverviewNames == { <<"R", "e", "n", "t">>, <<"C", "a", "r">> }

FirstAmounts ==
    { <<"$", "0", ".", "0", "0">>, <<"$", "0", ".", "0", "1">>, <<"n", "/", "a">>,
      <<"-", "5">> }

SecondAmounts ==
    { << >>, <<"$", "0", ".", "0", "0">>, <<"$", "0", ".", "0", "1">>, <<"n", "/", "a">> }

OverviewRowSet ==
    {<<n, a, b>> : n \in OverviewNames, a \in FirstAmounts, b \in SecondAmounts}
        \cup {<<n, a>> : n \in OverviewNames, a \in {<<"$", "0", ".", "0", "1">>}}

RECURSIVE BlocksUpTo(_, _)
BlocksUpTo(rowset, n) ==
    IF n = 0 THEN {<< >>}
    ELSE LET shorter == BlocksUpTo(rowset, n - 1)
         IN  shorter \cup {Append(b, r) : b \in shorter, r \in rowset}

OverviewBlocks == BlocksUpTo(OverviewRowSet, MaxOverviewRows)

InitOverview ==
    /\ rows \in OverviewBlocks
    /\ mapper = "none"
    /\ entities = NotCalled
    /\ lookup = NotCalled
    /\ NoMoneyCall
    /\ NoRun

CallPaymentsFromRange ==
    /\ mapper = "none"
    /\ mapper' = "Payments"
    /\ entities' = PaymentsOverview_from_range(rows)
    /\ UNCHANGED <<rows, lookup, moneyVars, summaryVars, debugVars>>

CallSavingsFromRange ==
    /\ mapper = "none"
    /\ mapper' = "Savings"
    /\ entities' = SavingsOverview_from_range(rows)
    /\ UNCHANGED <<rows, lookup, moneyVars, summaryVars, debugVars>>

CallTransferFromRange ==
    /\ mapper = "none"
    /\ mapper' = "Transfer"
    /\ entities' = TransferOverview_from_range(rows)
    /\ UNCHANGED <<rows, lookup, moneyVars, summaryVars, debugVars>>

NextOverview == CallPaymentsFromRange \/ CallSavingsFromRange \/ CallTransferFromRange

SpecOverview == InitOverview /\ [][NextOverview]_vars

(***************************************************************************)
(* Overview rows as the claims describe them                               *)
(***************************************************************************)
GoverningColumn == IF mapper = "Payments" THEN 2 ELSE 3    \* counted from 1

EntityOf(row) ==
    IF mapper = "Transfer"
    THEN [from_account |-> row[1], to_account |-> row[2], amount |-> AmountOfCell(row[3])]
    ELSE [category |-> row[1], amount |-> AmountOfCell(row[GoverningColumn])]

RECURSIVE NonZeroRows(_)
NonZeroRows(rs) ==
    IF rs = << >> THEN << >>
    ELSE IF AmountOfCell(Head(rs)[GoverningColumn]) # 0
         THEN <<EntityOf(Head(rs))>> \o NonZeroRows(Tail(rs))
         ELSE NonZeroRows(Tail(rs))

Filtered == mapper \in {"Payments", "Savings", "Transfer"} /\ entities.exc = "none"

\* C9: the output of PaymentsOverview.from_range (amount in column 1),
\* SavingsOverview.from_range (column 2) and TransferOverview.from_range
\* (column 2) holds exactly the rows whose governing amount parses to a
\* nonzero value, in input order: "$0.00" is dropped, "$0.01" is kept and no
\* entity has amount 0.
C9_ZeroRowsDropped ==
    Filtered =>
        /\ entities.val = NonZeroRows(rows)
        /\ \A k \in 1..Len(entities.val) : entities.val[k].amount # 0
        /\ \A i \in 1..Len(rows) :
              /\ rows[i][GoverningColumn] = <<"$", "0", ".", "0", "0">>
                    => \A k \in 1..Len(entities.val) : entities.val[k] # EntityOf(rows[i])
              /\ rows[i][GoverningColumn] = <<"$", "0", ".", "0", "1">>
                    => \E k \in 1..Len(entities.val) :
                          /\ entities.val[k] = EntityOf(rows[i])
                          /\ entities.val[k].amount = Units \div 100

C9_Witness ==
    /\ mapper = "Savings"
    /\ rows = << << <<"R", "e", "n", "t">>, <<"$", "0", ".", "0", "1">>, <<"$", "0", ".", "0", "0">> >>,
                 << <<"C", "a", "r">>, <<"-", "5">>, <<"$", "0", ".", "0", "1">> >> >>
    /\ entities = Return(<< [category |-> <<"C", "a", "r">>, amount |-> Units \div 100] >>)

\* the governing cell of a row; a cell the data source left out reads as empty
GoverningCell(row) == IF Len(row) >= GoverningColumn THEN row[GoverningColumn] ELSE << >>

RowEntity(row) ==
    IF mapper = "Transfer"
    THEN [from_account |-> row[1], to_account |-> row[2],
          amount |-> AmountOfCell(GoverningCell(row))]
    ELSE [category |-> row[1], amount |-> AmountOfCell(GoverningCell(row))]

RECURSIVE RowsWithAmount(_)
RowsWithAmount(rs) ==
    IF rs = << >> THEN << >>
    ELSE IF AmountOfCell(GoverningCell(Head(rs))) # 0
         THEN <<RowEntity(Head(rs))>> \o RowsWithAmount(Tail(rs))
         ELSE RowsWithAmount(Tail(rs))

\* C20: in PaymentsOverview, SavingsOverview and TransferOverview a row whose
\* governing amount cell is empty or missing (the row is shorter than the
\* governing column) counts as amount 0 and is dropped without raising; so a
\* row with a payments amount and no savings cell gives a PaymentsOverview,
\* no SavingsOverview and no error.
C20_MissingCellIsZero ==
    (/\ mapper \in {"Payments", "Savings", "Transfer"}
     /\ \A i \in 1..Len(rows) : CellParses(GoverningCell(rows[i])))
        => /\ entities.exc = "none"
           /\ entities.val = RowsWithAmount(rows)

\* the row has its governing cell, and the cell holds text that is no amount
Unparsable(row) ==
    /\ Len(row) >= GoverningColumn
    /\ row[GoverningColumn] # << >>
    /\ ~CellParses(row[GoverningColumn])

\* C21: in PaymentsOverview, SavingsOverview and TransferOverview a row whose
\* governing amount cell is non-empty and fails to parse makes from_range
\* raise: the row is not dropped, no entity of amount 0 stands for it and no
\* list of the other rows is returned.
C21_ParseFailureRaises ==
    (/\ mapper \in {"Payments", "Savings", "Transfer"}
     /\ \E i \in 1..Len(rows) : Unparsable(rows[i]))
        => /\ entities.exc \in {"ValueError", "IndexError"}
           /\ (\A i \in 1..Len(rows) : Len(rows[i]) >= GoverningColumn)
                 => entities = Raise("ValueError")

\* a row that would be kept, then a row whose transfer amount is "n/a"
C21_Witness ==
    /\ mapper = "Transfer"
    /\ rows = << <<<<"R", "e", "n", "t">>, <<"$", "0", ".", "0", "1">>, <<"$", "0", ".", "0", "1">>>>, <<<<"C", "a", "r">>, <<"$", "0", ".", "0", "1">>, <<"n", "/", "a">>>> >>
    /\ entities = Raise("ValueError")

(***************************************************************************)
(* datetime.strptime(text, "%m/%d/%Y").date(), as the day number           *)
(* date.toordinal() gives                                                  *)
(***************************************************************************)
RECURSIVE SplitAt(_, _)
SplitAt(t, sep) ==      \* str.split: the parts of t between the separators
    IF \A i \in 1..Len(t) : t[i] # sep THEN <<t>>
    ELSE LET k == CHOOSE i \in 1..Len(t) : t[i] = sep /\ \A j \in 1..(i - 1) : t[j] # sep
         IN  <<SubSeq(t, 1, k - 1)>> \o SplitAt(SubSeq(t, k + 1, Len(t)), sep)

AllDigits(t) == \A i \in 1..Len(t) : t[i] \in Digits

\* %m: 1[0-2] | 0[1-9] | [1-9]
MonthText(t) ==
    /\ Len(t) \in {1, 2}
    /\ AllDigits(t)
    /\ DigitsValue(t, 1, Len(t) + 1) \in 1..12

\* %d: 3[01] | [12]\d | 0[1-9] | [1-9] | " "[1-9]
DayText(t) ==
    \/ /\ Len(t) \in {1, 2}
       /\ AllDigits(t)
       /\ DigitsValue(t, 1, Len(t) + 1) \in 1..31
    \/ /\ Len(t) = 2
       /\ t[1] = " "
       /\ t[2] \in Digits \ {"0"}

\* %Y: \d\d\d\d
YearText(t) == Len(t) = 4 /\ AllDigits(t)

IsLeap(y) == y % 4 = 0 /\ (y % 100 # 0 \/ y % 400 = 0)

DaysInMonth(y, m) ==
    IF m = 2 THEN (IF IsLeap(y) THEN 29 ELSE 28)
    ELSE IF m \in {4, 6, 9, 11} THEN 30 ELSE 31

RECURSIVE DaysBeforeMonth(_, _)
DaysBeforeMonth(y, m) ==
    IF m = 1 THEN 0 ELSE DaysBeforeMonth(y, m - 1) + DaysInMonth(y, m - 1)

DaysBeforeYear(y) ==
    (y - 1) * 365 + (y - 1) \div 4 - (y - 1) \div 100 + (y - 1) \div 400

toordinal(y, m, d) == DaysBeforeYear(y) + DaysBeforeMonth(y, m) + d

strptime_date(text) ==
    LET parts == SplitAt(text, "/")
        m == DigitsValue(parts[1], 1, Len(parts[1]) + 1)
        d == DigitsValue(strip(parts[2]), 1, Len(strip(parts[2])) + 1)
        y == DigitsValue(parts[3], 1, 5)
    IN  IF Len(parts) # 3 THEN Raise("ValueError")
        ELSE IF ~(MonthText(parts[1]) /\ DayText(parts[2]) /\ YearText(parts[3]))
        THEN Raise("ValueError")
        ELSE IF y < 1 \/ d > DaysInMonth(y, m) THEN Raise("ValueError")
        ELSE Return(toordinal(y, m, d))

(***************************************************************************)
(* AccountBalance.from_rows and SpendableOverview.from_range               *)
(***************************************************************************)
\* the difference is taken the other way round
amount_diff_Reversed(amount_manual, amount_calc) ==
    FSub(ToDouble(amount_calc), ToDouble(amount_manual))

\* amount_diff = amount_manual - amount_calc
amount_diff(amount_manual, amount_calc) ==
    FSub(ToDouble(amount_manual), ToDouble(amount_calc))

AccountBalance_from_row(row) ==
    LET name == Cell(row, 0)
        amount_calc == parse_money_cell(row, 2)
        amount_manual == parse_money_cell(row, 3)
    IN  IF name.exc # "none" THEN name
        ELSE IF amount_calc.exc # "none" THEN amount_calc
        ELSE IF amount_manual.exc # "none" THEN amount_manual
        ELSE Return(<< [name |-> strip(name.val),
                        amount_manual |-> amount_manual.val,
                        amount_calc |-> amount_calc.val,
                        amount_diff |-> amount_diff(amount_manual.val, amount_calc.val)] >>)

AccountBalance_from_rows(rs) == from_range([i \in 1..Len(rs) |-> AccountBalance_from_row(rs[i])])

\* a from_row that gives nothing for a row of zero amounts
SpendableOverview_from_row_DropsZero(row) ==
    IF parse_money_cell(row, 1).exc # "none" THEN parse_money_cell(row, 1)
    ELSE IF parse_money_cell(row, 2).exc # "none" THEN parse_money_cell(row, 2)
    ELSE IF parse_money_cell(row, 3).exc # "none" THEN parse_money_cell(row, 3)
    ELSE IF parse_money_cell(row, 1).val = 0 THEN Return(<< >>)
    ELSE Return(<< [category |-> row[1],
                    spendable_amount |-> parse_money_cell(row, 1).val,
                    future_daily |-> parse_money_cell(row, 2).val,
                    left_today |-> parse_money_cell(row, 3).val] >>)

SpendableOverview_from_row(row) ==
    LET spendable_amount == parse_money_cell(row, 1)
        future_daily == parse_money_cell(row, 2)
        left_today == parse_money_cell(row, 3)
    IN  IF spendable_amount.exc # "none" THEN spendable_amount
        ELSE IF future_daily.exc # "none" THEN future_daily
        ELSE IF left_today.exc # "none" THEN left_today
        ELSE Return(<< [category |-> row[1],
                        spendable_amount |-> spendable_amount.val,
                        future_daily |-> future_daily.val,
                        left_today |-> left_today.val] >>)

SpendableOverview_from_range(rs) == from_range([i \in 1..Len(rs) |-> SpendableOverview_from_row(rs[i])])

(***************************************************************************)
(* BudgetStats.from_rows                                                   *)
(***************************************************************************)
upper_char(c) ==
    IF \E i \in 1..26 : LowerCase[i] = c
    THEN UpperCase[CHOOSE i \in 1..26 : LowerCase[i] = c]
    ELSE c

upper(t) == [i \in 1..Len(t) |-> upper_char(t[i])]

\* the fields in the order of the keyword arguments, each with the index
\* of its row and the way its cell is read
StatsFields ==
    << <<"income_account", 0, "name">>,
       <<"total_budget", 3, "money">>,
       <<"income_at_period_start", 5, "money">>,
       <<"checking_amount_period_start", 7, "money">>,
       <<"total_withheld_required_payments", 9, "money">>,
       <<"total_withheld_savings", 11, "money">>,
       <<"balance_after_withheld", 13, "money">>,
       <<"budget_after_withheld", 15, "money">>,
       <<"allocated_spending_budget", 17, "money">>,
       <<"balance_after_withheld_and_spending", 19, "money">>,
       <<"budget_after_withheld_and_spending", 21, "money">>,
       <<"budget_after_withheld_and_spent", 23, "money">>,
       <<"overspent_soft", 25, "flag">>,
       <<"overspent_hard", 27, "flag">>,
       <<"checking_floor", 29, "money">>,
       <<"free_to_spend", 31, "money">> >>

\* a missing row or cell read as the empty text
FirstCell_Defaults(rs, k) ==
    IF k + 1 > Len(rs) THEN Return(<< >>)
    ELSE IF rs[k + 1] = << >> THEN Return(<< >>)
    ELSE Cell(rs[k + 1], 0)

\* rows[k][0]
FirstCell(rs, k) ==
    IF k + 1 > Len(rs) THEN Raise("IndexError") ELSE Cell(rs[k + 1], 0)

\* the flags are compared without folding the case
StatsField_ExactCase(rs, f) ==
    LET cell == FirstCell(rs, StatsFields[f][2])
        kind == StatsFields[f][3]
    IN  IF cell.exc # "none" THEN cell
        ELSE IF kind = "name" THEN Return(strip(cell.val))
        ELSE IF kind = "flag" THEN Return(strip(cell.val) = <<"T", "R", "U", "E">>)
        ELSE parse_money(cell.val)

StatsField(rs, f) ==
    LET cell == FirstCell(rs, StatsFields[f][2])
        kind == StatsFields[f][3]
    IN  IF cell.exc # "none" THEN cell
        ELSE IF kind = "name" THEN Return(strip(cell.val))
        ELSE IF kind = "flag" THEN Return(upper(strip(cell.val)) = <<"T", "R", "U", "E">>)
        ELSE parse_money(cell.val)

BudgetStats_from_rows(rs) ==
    LET failed == {f \in 1..Len(StatsFields) : StatsField(rs, f).exc # "none"}
    IN  IF failed # {}
        THEN StatsField(rs, CHOOSE f \in failed : \A g \in failed : f <= g)
        ELSE Return([name \in {StatsFields[f][1] : f \in 1..Len(StatsFields)} |->
                        StatsField(rs, CHOOSE f \in 1..Len(StatsFields) :
                                           StatsFields[f][1] = name).val])

(***************************************************************************)
(* The category table of main, and the Budget mappers                      *)
(***************************************************************************)
RECURSIVE Concat(_)
Concat(seqs) == IF seqs = << >> THEN << >> ELSE Head(seqs) \o Concat(Tail(seqs))

\* zip(keys, row)
zip(keys, row) ==
    [j \in 1..(IF Len(keys) < Len(row) THEN Len(keys) ELSE Len(row)) |-> <<keys[j], row[j]>>]

\* the keys of {key: [] for key in keys}, in insertion order
dict_keys(keys) ==
    LET first == {j \in 1..Len(keys) : \A i \in 1..(j - 1) : keys[i] # keys[j]}
        nth(n) == CHOOSE j \in first : Cardinality({i \in first : i < j}) = n - 1
    IN  [n \in 1..Cardinality(first) |-> keys[nth(n)]]

\* the table as the list of its (category, subcategories) items
cat2subcat(categories_sheet) ==
    IF categories_sheet = << >> THEN Raise("IndexError")
    ELSE LET keys == categories_sheet[1]
             cells == Concat([r \in 1..(Len(categories_sheet) - 1) |->
                                 zip(keys, categories_sheet[r + 1])])
             appended(key) == SelectSeq(cells, LAMBDA c : c[1] = key /\ c[2] # << >>)
         IN  Return([n \in 1..Len(dict_keys(keys)) |->
                        [cat |-> dict_keys(keys)[n],
                         subs |-> [k \in 1..Len(appended(dict_keys(keys)[n])) |->
                                      appended(dict_keys(keys)[n])[k][2]]]])

\* a due date that is None is written 0, below every day number
NoDate == 0

\* float(row[k]), for texts of digits, '.', '-' and letters float rejects
float_cell(row, k) ==
    IF Cell(row, k).exc # "none" THEN Cell(row, k) ELSE float(Cell(row, k).val)

Slash == <<" ", "/", " ">>

\* match str(row[3]): case "FALSE" is a required payment, any other text is
\* expendable
manual_expense_type(flag) ==
    IF flag = <<"F", "A", "L", "S", "E">> THEN "RequiredPayment" ELSE "Expendable"

\* a recurring row classified the way a manual row is
recurring_expense_type_Expendable(flag) ==
    IF flag = <<"F", "A", "L", "S", "E">> THEN "RequiredPayment" ELSE "Expendable"

\* match str(row[4]): case "FALSE" is a required payment, any other text is
\* a saving
recurring_expense_type(flag) ==
    IF flag = <<"F", "A", "L", "S", "E">> THEN "RequiredPayment" ELSE "Saving"

\* a description that joins the detail on even when nothing is left of it
manual_description_AlwaysJoins(category, detailed_description) ==
    category \o Slash \o detailed_description

\* (category, category + " / " + detailed_description)[bool(detailed_description)]
manual_description(category, detailed_description) ==
    IF detailed_description # << >>
    THEN category \o Slash \o detailed_description
    ELSE category

Budget_from_manual_budget_row(period_size, row) ==
    LET category == Cell(row, 0)
        detail == Cell(row, 2)
        flag == Cell(row, 3)
        amount == parse_money_cell(row, 1)
    IN  IF category.exc # "none" THEN category
        ELSE IF detail.exc # "none" THEN detail
        ELSE IF flag.exc # "none" THEN flag
        ELSE IF amount.exc # "none" THEN amount
        ELSE Return(<< [category |-> strip(category.val),
                        subcategory |-> None,
                        amount |-> amount.val,
                        timeframe |-> period_size,
                        description |->
                            manual_description(strip(category.val), strip(detail.val)),
                        expense_type |-> manual_expense_type(flag.val),
                        paid_from |-> None,
                        next_approx_payment |-> NoDate] >>)

Budget_from_manual_budget_range(period_size, rs) ==
    from_range([i \in 1..Len(rs) |-> Budget_from_manual_budget_row(period_size, rs[i])])

\* a lookup that leaves the category empty when no list holds the subcategory
category_of_Blank(table, subcategory) ==
    LET holding == {n \in 1..Len(table) :
                        \E k \in 1..Len(table[n].subs) : table[n].subs[k] = subcategory}
        found == IF holding = {} THEN << >>
                 ELSE table[CHOOSE n \in holding : \A m \in holding : n <= m].cat
    IN  Return(found)

\* the first category, in table order, whose list holds the subcategory;
\* "if not category" also rejects a category that is the empty text
category_of(table, subcategory) ==
    LET holding == {n \in 1..Len(table) :
                        \E k \in 1..Len(table[n].subs) : table[n].subs[k] = subcategory}
        found == table[CHOOSE n \in holding : \A m \in holding : n <= m].cat
    IN  IF holding = {} THEN Raise("Exception")
        ELSE IF found = << >> THEN Raise("Exception")
        ELSE Return(found)

Budget_from_recurring_budget_row(table, row) ==
    LET subcategory == Cell(row, 0)
        description == Cell(row, 1)
        amount == parse_money_cell(row, 2)
        timeframe == float_cell(row, 3)
        flag == Cell(row, 4)
        paid_from == Cell(row, 5)
        due == IF Cell(row, 7).exc # "none" THEN Cell(row, 7)
               ELSE strptime_date(strip(Cell(row, 7).val))
        category == category_of(table, strip(subcategory.val))
    IN  IF subcategory.exc # "none" THEN subcategory
        ELSE IF description.exc # "none" THEN description
        ELSE IF amount.exc # "none" THEN amount
        ELSE IF timeframe.exc # "none" THEN timeframe
        ELSE IF flag.exc # "none" THEN flag
        ELSE IF paid_from.exc # "none" THEN paid_from
        ELSE IF due.exc # "none" THEN due
        ELSE IF category.exc # "none" THEN category
        ELSE Return(<< [category |-> category.val,
                        subcategory |-> strip(subcategory.val),
                        amount |-> amount.val,
                        timeframe |-> timeframe.val,
                        description |-> strip(description.val),
                        expense_type |-> recurring_expense_type(flag.val),
                        paid_from |-> strip(paid_from.val),
                        next_approx_payment |-> due.val] >>)

Budget_from_recurring_budget_range(table, rs) ==
    from_range([i \in 1..Len(rs) |-> Budget_from_recurring_budget_row(table, rs[i])])

\* the list is left in the order the blocks were read
sort_key_InputOrder(budget) == 1

\* key=lambda b: b.next_approx_payment or date.min
sort_key(budget) ==
    IF budget.next_approx_payment = NoDate THEN 1 ELSE budget.next_approx_payment

\* budgets.sort(key=...): ascending and stable
RECURSIVE sort_budgets(_)
sort_budgets(list) ==
    IF list = << >> THEN << >>
    ELSE LET x == list[Len(list)]
             front == sort_budgets(SubSeq(list, 1, Len(list) - 1))
         IN  SelectSeq(front, LAMBDA y : sort_key(y) <= sort_key(x)) \o <<x>>
                 \o SelectSeq(front, LAMBDA y : sort_key(y) > sort_key(x))

\* budgets = manual + recurring, then sorted
budgets_of(period_size, table, manual_rows, recurring_rows) ==
    LET manual == Budget_from_manual_budget_range(period_size, manual_rows)
        recurring == Budget_from_recurring_budget_range(table, recurring_rows)
    IN  IF manual.exc # "none" THEN manual
        ELSE IF recurring.exc # "none" THEN recurring
        ELSE Return(sort_budgets(manual.val \o recurring.val))

(***************************************************************************)
(* main: the ranges are queried and mapped in this order, the first error  *)
(* ends the run, and the Summary is built from the results.  (The budget   *)
(* list and the category table come from ranges of their own.)             *)
(***************************************************************************)
\* account.query(...)[0][0]
SingleCell(block) == FirstCell(block, 0)

parse_date_cell(block) ==
    IF SingleCell(block).exc # "none" THEN SingleCell(block)
    ELSE strptime_date(SingleCell(block).val)

\* float(account.query(...)[0][0])
parse_float_cell(block) ==
    IF SingleCell(block).exc # "none" THEN SingleCell(block)
    ELSE float(SingleCell(block).val)

budgets_step(sh) ==
    IF cat2subcat(sh.categories).exc # "none" THEN cat2subcat(sh.categories)
    ELSE IF parse_float_cell(sh.period_size).exc # "none" THEN parse_float_cell(sh.period_size)
    ELSE budgets_of(parse_float_cell(sh.period_size).val, cat2subcat(sh.categories).val,
                    sh.manual, sh.recurring)

MainSteps(sh) ==
    << <<"cat2subcat", cat2subcat(sh.categories)>>,
       <<"period_size", parse_float_cell(sh.period_size)>>,
       <<"start_date", parse_date_cell(sh.start_date)>>,
       <<"end_date", parse_date_cell(sh.end_date)>>,
       <<"account_balances", AccountBalance_from_rows(sh.accounts)>>,
       <<"spendable_overviews", SpendableOverview_from_range(sh.spendable)>>,
       <<"transfer_overviews", TransferOverview_from_range(sh.transfers)>>,
       <<"payments_overviews", PaymentsOverview_from_range(sh.overview)>>,
       <<"savings_overviews", SavingsOverview_from_range(sh.overview)>>,
       <<"budgets", budgets_step(sh)>>,
       <<"budget_stats", BudgetStats_from_rows(sh.stats)>>,
       <<"spent_categorized", Bss_from_rows(sh.spent)>>,
       <<"meta", Return([name |-> sh.full_name])>> >>

\* the fields of the Summary; the category table stays local to main
SummaryFields ==
    {"period_size", "start_date", "end_date", "account_balances", "spendable_overviews",
     "transfer_overviews", "payments_overviews", "savings_overviews", "budgets",
     "budget_stats", "spent_categorized", "meta"}

\* the first step that raised ends the run; otherwise Summary(...) is built
run_of(steps) ==
    LET failed == {i \in 1..Len(steps) : steps[i][2].exc # "none"}
    IN  IF failed # {}
        THEN steps[CHOOSE i \in failed : \A j \in failed : i <= j][2]
        ELSE Return([name \in SummaryFields |->
                        steps[CHOOSE i \in 1..Len(steps) : steps[i][1] = name][2].val])

main(sh) == run_of(MainSteps(sh))

(***************************************************************************)
(* Summary.to_email_html: the values handed to the template                *)
(***************************************************************************)
Positive(x) == x # Zero /\ ~x.neg

\* max(0, x) and max(x, 0)
max0(x) == IF Positive(x) THEN x ELSE Zero

\* the days are counted without the clamp at zero
days_left_Unclamped(end_date, day) == end_date - day + 1

\* days_left = max((self.end_date - today).days, 0) + 1
days_left(end_date, day) == (IF end_date - day > 0 THEN end_date - day ELSE 0) + 1

\* the three buckets are netted before the clamp
overflow_consumed_Netted(stats, bills, savings, spending) ==
    max0(FAdd(FAdd(FSub(bills, ToDouble(stats.total_withheld_required_payments)),
                   FSub(savings, ToDouble(stats.total_withheld_savings))),
              FSub(spending, ToDouble(stats.allocated_spending_budget))))

overflow_consumed(stats, bills, savings, spending) ==
    LET bills_overspent ==
            max0(FSub(bills, ToDouble(stats.total_withheld_required_payments)))
        savings_overspent ==
            max0(FSub(savings, ToDouble(stats.total_withheld_savings)))
        spending_overspent ==
            max0(FSub(spending, ToDouble(stats.allocated_spending_budget)))
    IN  FAdd(FAdd(bills_overspent, savings_overspent), spending_overspent)

\* the percentage is capped at 100
overflow_pct_Capped(consumed, available) ==
    IF ~Positive(available) THEN Zero
    ELSE IF FLess(ToDouble(100 * Units), FMulNat(FDiv(consumed, available), 100))
    THEN ToDouble(100 * Units)
    ELSE max0(FMulNat(FDiv(consumed, available), 100))

overflow_pct(consumed, available) ==
    max0(IF Positive(available) THEN FMulNat(FDiv(consumed, available), 100) ELSE Zero)

\* the smaller left_today goes first
goes_before_Ascending(y, x) == ~FLess(ToDouble(x.left_today), ToDouble(y.left_today))

\* y, met before x, stays before x unless its left_today is smaller
goes_before(y, x) == ~FLess(ToDouble(y.left_today), ToDouble(x.left_today))

\* sorted(..., key=lambda x: x.left_today, reverse=True): a stable sort, the
\* elements of equal key stay in their order
RECURSIVE sorted_by_left_today(_)
sorted_by_left_today(list) ==
    IF list = << >> THEN << >>
    ELSE LET x == list[Len(list)]
             front == sorted_by_left_today(SubSeq(list, 1, Len(list) - 1))
         IN  SelectSeq(front, LAMBDA y : goes_before(y, x)) \o <<x>>
                 \o SelectSeq(front, LAMBDA y : ~goes_before(y, x))

\* the render sorts the stored list itself
summary_after_render_SortsInPlace(self) ==
    [self EXCEPT !.spendable_overviews = sorted_by_left_today(@)]

\* the Summary after to_email_html: no statement of it assigns to self
summary_after_render(self) == self

to_email_html(self, day) ==
    LET bills_this_period == Bss_bills(self.spent_categorized)
        savings_this_period == Bss_savings(self.spent_categorized)
        spending_this_period == Bss_spending(self.spent_categorized)
        consumed == overflow_consumed(self.budget_stats, bills_this_period,
                                      savings_this_period, spending_this_period)
        available == ToDouble(self.budget_stats.budget_after_withheld_and_spending)
    IN  [ today |-> day,
          days_left |-> days_left(self.end_date, day),
          meta |-> self.meta,
          start_date |-> self.start_date,
          end_date |-> self.end_date,
          period_size |-> self.period_size,
          budgets |-> self.budgets,
          spending_this_period |-> spending_this_period,
          bills_this_period |-> bills_this_period,
          savings_this_period |-> savings_this_period,
          remaining_sum |-> sum([i \in 1..Len(self.spendable_overviews) |->
                                   ToDouble(self.spendable_overviews[i].spendable_amount)]),
          account_balances |-> self.account_balances,
          spendable_overviews |-> sorted_by_left_today(self.spendable_overviews),
          payments_overviews |-> self.payments_overviews,
          savings_overviews |-> self.savings_overviews,
          budget_stats |-> self.budget_stats,
          transfer_overviews |-> self.transfer_overviews,
          overflow_pct |-> overflow_pct(consumed, available),
          overflow_consumed |-> consumed,
          overflow_available |-> available ]

(***************************************************************************)
(* Summary.to_email_subject                                                *)
(***************************************************************************)
\* the new-period subject on every day from the start date on
is_new_period_Since(start_date, day) == start_date <= day

\* self.start_date == date.today()
is_new_period(start_date, day) == start_date = day

to_email_subject(self, day) ==
    IF is_new_period(self.start_date, day)
    THEN <<"N", "E", "W", " ", "B", "U", "D", "G", "E", "T", " ", "U", "N", "L", "O", "C", "K", "E", "D", " ", "F", "O", "R", " ">> \o self.meta.name \o <<"!", "!", "!", " ", "-", " ", "B", "u", "d", "g", "e", "t", " ", "R", "e", "m", "i", "n", "d", "e", "r">>
    ELSE self.meta.name \o <<" ", "B", "u", "d", "g", "e", "t", " ", "R", "e", "m", "i", "n", "d", "e", "r">>

(***************************************************************************)
(* Runs of the reminder: main builds the Summary from the sheet, the       *)
(* Summary is rendered, and the calendar day advances between renders.     *)
(***************************************************************************)
MaxRenders == 2     \* renders of one Summary
MaxAccounts == 2    \* rows of the account-balance range
DaysAround == 2     \* days enumerated before and after the reference day

RefDay == toordinal(2024, 2, 28)

Money0 == <<"$", "0">>
LabelCell == <<"l", "a", "b", "e", "l">>

\* the 32 single-cell rows of the statistics range
StatsBlock(required, savings, allocated, available) ==
    [i \in 1..32 |->
        << IF i - 1 = 0 THEN <<" ", "C", "h", "e", "c", "k", "i", "n", "g", " ">>
           ELSE IF i - 1 = 9 THEN required
           ELSE IF i - 1 = 11 THEN savings
           ELSE IF i - 1 = 17 THEN allocated
           ELSE IF i - 1 = 21 THEN available
           ELSE IF i - 1 = 25 THEN <<"t", "r", "u", "e">>
           ELSE IF i - 1 = 27 THEN <<"F", "A", "L", "S", "E">>
           ELSE IF i - 1 >= 3 /\ (i - 1) % 2 = 1 THEN Money0
           ELSE LabelCell >>]

SpentBlock(bills, savings, spending) ==
    << BillsRow, <<bills>>, SavingsRow, <<savings>>, GroceriesRow, <<spending>> >>

AccountRow(calc, manual) == << <<"C", "h", "e", "c", "k", "i", "n", "g">>, <<"$", "1">>, calc, manual >>

DefaultSheet ==
    [ full_name |-> <<"A", "d", "a", " ", "P", "a", "r", "k">>,
      categories |-> << <<<<"H", "o", "m", "e">>, <<"C", "a", "r">>>>, <<<<"R", "e", "n", "t">>, <<"F", "u", "e", "l">>>>, <<<<"P", "o", "w", "e", "r">>>> >>,
      period_size |-> << <<<<"1", "4">>>> >>,
      manual |-> << <<<<"F", "o", "o", "d">>, <<"$", "3", "0", "0">>, <<"w", "e", "e", "k", "l", "y", " ", "s", "h", "o", "p">>, <<"T", "R", "U", "E">>>> >>,
      recurring |-> << <<<<"R", "e", "n", "t">>, <<"f", "l", "a", "t">>, <<"$", "9", "0", "0">>, <<"3", "0">>, <<"F", "A", "L", "S", "E">>, <<"C", "h", "e", "c", "k", "i", "n", "g">>, << >>,
                         <<"0", "3", "/", "0", "1", "/", "2", "0", "2", "4">>>> >>,
      start_date |-> << <<<<"0", "2", "/", "1", "5", "/", "2", "0", "2", "4">>>> >>,
      end_date |-> << <<<<"0", "2", "/", "2", "8", "/", "2", "0", "2", "4">>>> >>,
      accounts |-> << AccountRow(<<"$", "1", "0", ".", "0", "0">>, <<"$", "1", "2", ".", "5", "0">>) >>,
      spendable |-> << <<<<"F", "o", "o", "d">>, <<"$", "5", "0">>, <<"$", "5">>, <<"$", "2">>>>, <<<<"F", "u", "n">>, <<"$", "2", "0", ".", "1", "0">>, <<"$", "1">>, <<"$", "7">>>> >>,
      transfers |-> << <<<<"C", "h", "e", "c", "k", "i", "n", "g">>, <<"V", "a", "u", "l", "t">>, <<"$", "2", "5">>>>, <<<<"V", "a", "u", "l", "t">>, <<"C", "h", "e", "c", "k", "i", "n", "g">>, <<"$", "0">>>> >>,
      overview |-> << <<<<"R", "e", "n", "t">>, <<"$", "9", "0", "0">>, <<"$", "0">>>>, <<<<"C", "a", "r">>, <<"$", "0">>, <<"$", "4", "0">>>> >>,
      stats |-> StatsBlock(<<"$", "5", "0", "0">>, <<"$", "2", "0", "0">>, <<"$", "4", "0", "0">>, <<"$", "1", "0", "0">>),
      spent |-> SpentBlock(<<"$", "5", "0", "0">>, <<"$", "2", "0", "0">>, <<"$", "1", "5", "0">>) ]

BillsSpent == { <<"$", "6", "0", "0">>, <<"$", "0", ".", "1", "0">> }
SavingsSpent == { <<"$", "2", "0", "0", ".", "3", "0">>, <<"$", "0">> }
SpendingSpent == { <<"$", "7", "0", "0">>, <<"$", "1", "0", "0">> }
SpendingAllocated == { <<"$", "4", "0", "0">>, <<"$", "0">> }
OverflowAvailable == { <<"-", "$", "1", "0", "0">>, <<"$", "0">>, <<"$", "1", "0", "0">>, <<"$", "1", ",", "0", "0", "0">> }

OverflowSheets ==
    { [DefaultSheet EXCEPT !.stats = StatsBlock(<<"$", "5", "0", "0">>, <<"$", "2", "0", "0">>, alloc, avail),
                           !.spent = SpentBlock(b, s, sp)] :
        <<b, s, sp, alloc, avail>> \in
            BillsSpent \X SavingsSpent \X SpendingSpent \X SpendingAllocated \X OverflowAvailable }

CalcAmounts == { <<"$", "1", "0", ".", "0", "0">>, <<"0", ".", "1">>, <<"-", "$", "5">> }
ManualAmounts == { <<"$", "1", "0", ".", "0", "0">>, <<"0", ".", "3">>, << >> }

AccountRowSet ==
    { AccountRow(c, m) : <<c, m>> \in CalcAmounts \X ManualAmounts }
        \cup { AccountRow(<<"n", "/", "a">>, <<"$", "1">>), << <<"C", "h", "e", "c", "k", "i", "n", "g">>, <<"$", "1">>, <<"$", "2">> >> }

AccountSheets ==
    { [DefaultSheet EXCEPT !.accounts = block] : block \in BlocksUpTo(AccountRowSet, MaxAccounts) }

\* a statistics range that ends before its last row
ShortStatsSheet ==
    [DefaultSheet EXCEPT !.stats = SubSeq(DefaultSheet.stats, 1, 31)]

EndDateTexts ==
    { <<"0", "2", "/", "2", "7", "/", "2", "0", "2", "4">>, <<"0", "2", "/", "2", "8", "/", "2", "0", "2", "4">>, <<"2", "/", "2", "9", "/", "2", "0", "2", "4">>, <<"0", "3", "/", "0", "1", "/", "2", "0", "2", "4">>, <<"0", "2", "/", "3", "0", "/", "2", "0", "2", "4">>, <<"2", "0", "2", "4", "-", "0", "2", "-", "2", "8">> }

DateSheets ==
    { [DefaultSheet EXCEPT !.end_date = << <<t>> >>] : t \in EndDateTexts }
        \cup { [DefaultSheet EXCEPT !.end_date = << >>] }

InitSummary ==
    /\ sheet \in OverflowSheets \cup AccountSheets \cup {ShortStatsSheet}
    /\ summary = NotCalled
    /\ today = RefDay
    /\ context = NotCalled
    /\ renders = 0
    /\ NoMoneyCall
    /\ NoMapperCall
    /\ subject = NotCalled
    /\ NoDebug

InitDays ==
    /\ sheet \in DateSheets
    /\ summary = NotCalled
    /\ today \in (RefDay - DaysAround)..(RefDay + DaysAround)
    /\ context = NotCalled
    /\ renders = 0
    /\ NoMoneyCall
    /\ NoMapperCall
    /\ subject = NotCalled
    /\ NoDebug

\* main, up to the construction of the Summary; an exception ends the run
Main ==
    /\ summary = NotCalled
    /\ summary' = main(sheet)
    /\ UNCHANGED <<sheet, today, context, renders, moneyVars, mapperVars, subject, debugVars>>

\* summary.to_email_html(); date.today() is the current day
Render ==
    /\ summary.exc = "none"
    /\ renders < MaxRenders
    /\ context' = Return(to_email_html(summary.val, today))
    /\ renders' = renders + 1
    /\ summary' = Return(summary_after_render(summary.val))
    /\ UNCHANGED <<sheet, today, moneyVars, mapperVars, subject, debugVars>>

\* midnight passes
NextDay ==
    /\ today < RefDay + DaysAround + 1
    /\ today' = today + 1
    /\ UNCHANGED <<sheet, summary, context, renders, moneyVars, mapperVars, subject, debugVars>>

NextSummary == Main \/ Render

SpecSummary == InitSummary /\ [][NextSummary]_vars

NextDays == Main \/ Render \/ NextDay

SpecDays == InitDays /\ [][NextDays]_vars

(***************************************************************************)
(* Properties of the rendered values                                       *)
(***************************************************************************)
Built == summary.exc = "none"

Rendered == context.exc = "none"

AboveZero(x) == FLess(Zero, x)

Hundred == ToDouble(100 * Units)

\* the cell of the statistics range at the given row, rows counted from 0
StatsCell(k) == sheet.stats[k + 1][1]

\* C1: overflow_pct is (overflow_consumed / overflow_available) * 100 when
\* overflow_available, the budget_after_withheld_and_spending of the
\* statistics, is above 0, and 0 when it is 0 or negative; it is never
\* negative, and it is above 100 whenever overflow_consumed is above a
\* positive overflow_available.
C1_OverflowPct ==
    Rendered =>
        LET consumed == context.val.overflow_consumed
            available == context.val.overflow_available
            pct == context.val.overflow_pct
        IN  /\ available = ToDouble(AmountOfCell(StatsCell(21)))
            /\ AboveZero(available) => pct = FMulNat(FDiv(consumed, available), 100)
            /\ ~AboveZero(available) => pct = Zero
            /\ ~FLess(pct, Zero)
            /\ (AboveZero(available) /\ FLess(available, consumed)) => FLess(Hundred, pct)

\* 400.30 overspent against an overflow pool of 100: 400.3 percent
C1_Witness ==
    /\ Rendered
    /\ StatsCell(21) = <<"$", "1", "0", "0">>
    /\ context.val.overflow_available = Hundred
    /\ context.val.overflow_consumed = ToDouble((4003 * Units) \div 10)
    /\ context.val.overflow_pct = ToDouble((4003 * Units) \div 10)
    /\ FLess(Hundred, context.val.overflow_pct)

\* max(0, spend - allowance), the allowance read from its cell
Overspend(spend, allowance) ==
    LET over == FSub(spend, ToDouble(AmountOfCell(allowance)))
    IN  IF AboveZero(over) THEN over ELSE Zero

\* C2: the overspend of a bucket is max(0, spend - allowance), with the
\* allowances total_withheld_required_payments for Bills,
\* total_withheld_savings for Savings and allocated_spending_budget for
\* Spending; overflow_consumed is the sum of the three overspends, it is
\* never negative, and it is never below the overspend of any one bucket.
C2_OverflowConsumed ==
    Rendered =>
        LET bills == Overspend(context.val.bills_this_period, StatsCell(9))
            savings == Overspend(context.val.savings_this_period, StatsCell(11))
            spending == Overspend(context.val.spending_this_period, StatsCell(17))
            consumed == context.val.overflow_consumed
        IN  /\ consumed = FAdd(FAdd(bills, savings), spending)
            /\ ~FLess(consumed, Zero)
            /\ \A over \in {bills, savings, spending} : ~FLess(consumed, over)

\* Bills 600 against 500 withheld, Savings and Spending under their
\* allowances: 100 consumed
C2_Witness ==
    /\ Rendered
    /\ sheet.spent = SpentBlock(<<"$", "6", "0", "0">>, <<"$", "0">>, <<"$", "1", "0", "0">>)
    /\ StatsCell(9) = <<"$", "5", "0", "0">> /\ StatsCell(11) = <<"$", "2", "0", "0">> /\ StatsCell(17) = <<"$", "4", "0", "0">>
    /\ context.val.bills_this_period = ToDouble(600 * Units)
    /\ context.val.savings_this_period = Zero
    /\ context.val.spending_this_period = Hundred
    /\ context.val.overflow_consumed = Hundred

DaysFromTo(day, end) == IF end - day > 0 THEN end - day ELSE 0

DaysLeftOfRender ==
    Rendered =>
        LET end == summary.val.end_date
            day == context.val.today
        IN  /\ context.val.end_date = end
            /\ context.val.days_left = DaysFromTo(day, end) + 1
            /\ context.val.days_left >= 1
            /\ day >= end => context.val.days_left = 1

DaysLeftOfNextRender ==
    (/\ Rendered
     /\ context'.val.today = context.val.today + 1
     /\ context.val.today < summary.val.end_date)
        => context'.val.days_left = context.val.days_left - 1

\* C3: days_left is max(days from today to end_date, 0) + 1: at least 1 on
\* every day, 1 on the end date and on every day after it, and one less in
\* the render of the next day as long as the day is before the end date.
C3_DaysLeft == [](DaysLeftOfRender) /\ [][DaysLeftOfNextRender]_vars

\* rendered a second time, on 28 February 2024 with the period ending on
\* 1 March: three days left
C3_Witness ==
    /\ Rendered
    /\ renders = 2
    /\ sheet.end_date = << <<<<"0", "3", "/", "0", "1", "/", "2", "0", "2", "4">>>> >>
    /\ today = 738944
    /\ context.val.today = today
    /\ summary.val.end_date = today + 2
    /\ context.val.days_left = 3

\* C10: every AccountBalance of AccountBalance.from_rows has amount_calc
\* parsed from column 2 and amount_manual from column 3 of its row and
\* amount_diff = amount_manual - amount_calc, and the account balances
\* handed to the template by every render are these.
C10_AmountDiff ==
    Built =>
        LET made == summary.val.account_balances
        IN  /\ Len(made) = Len(sheet.accounts)
            /\ \A k \in 1..Len(made) :
                  /\ made[k].amount_calc = AmountOfCell(sheet.accounts[k][3])
                  /\ made[k].amount_manual = AmountOfCell(sheet.accounts[k][4])
                  /\ made[k].amount_diff =
                        FSub(ToDouble(made[k].amount_manual), ToDouble(made[k].amount_calc))
            /\ Rendered => context.val.account_balances = made

\* two accounts rendered twice: 0.3 entered against 0.1 calculated, and
\* nothing entered against -5 calculated
C10_Witness ==
    /\ Built
    /\ renders = 2
    /\ sheet.accounts = << AccountRow(<<"0", ".", "1">>, <<"0", ".", "3">>), AccountRow(<<"-", "$", "5">>, << >>) >>
    /\ Len(context.val.account_balances) = 2
    /\ context.val.account_balances[1].amount_diff =
            FSub(ToDouble((3 * Units) \div 10), ToDouble(Units \div 10))
    /\ context.val.account_balances[1].amount_diff # ToDouble((2 * Units) \div 10)
    /\ context.val.account_balances[2].amount_diff = ToDouble(5 * Units)

(***************************************************************************)
(* Blocks of the statistics range, and BudgetStats.from_rows on them       *)
(***************************************************************************)
RECURSIVE NatText(_)
NatText(n) ==       \* the decimal digits of n
    IF n < 10 THEN <<CHOOSE d \in Digits : DigitVal(d) = n>>
    ELSE NatText(n \div 10) \o <<CHOOSE d \in Digits : DigitVal(d) = n % 10>>

\* the rows that carry neither the name, a flag nor an amount
StatsLabelRows == { << >>, <<<<"l", "a", "b", "e", "l">>>>, <<<<"T", "R", "U", "E">>>>, <<<<"$", "9">>>> }

FlagTexts == { <<"T", "R", "U", "E">>, <<"t", "r", "u", "e">>, <<" ", "T", "r", "u", "e", " ">>, <<"T", "R", "U", "E", "1">>, <<"F", "A", "L", "S", "E">>, << >> }

\* a block whose amount row k reads "$k" dollars (times the scale)
NumberedStats(label, soft, hard, scale) ==
    [i \in 1..32 |->
        IF i - 1 = 0 THEN <<<<" ", "J", "o", "i", "n", "t", " ", "C", "h", "e", "c", "k", "i", "n", "g", " ">>>>
        ELSE IF i - 1 = 25 THEN <<soft>>
        ELSE IF i - 1 = 27 THEN <<hard>>
        ELSE IF i - 1 >= 3 /\ (i - 1) % 2 = 1 THEN <<<<"$">> \o NatText((i - 1) * scale)>>
        ELSE label]

StatsScales == 1..2

NumberedBlocks ==
    { NumberedStats(label, soft, hard, scale) :
        label \in StatsLabelRows, soft \in FlagTexts, hard \in FlagTexts, scale \in StatsScales }

\* blocks that end early, or hold a row without a cell, an empty cell or a
\* cell that is not an amount
BrokenStatsBlocks ==
    LET block == NumberedStats(<<<<"l", "a", "b", "e", "l">>>>, <<"T", "R", "U", "E">>, <<"F", "A", "L", "S", "E">>, 1)
    IN  { SubSeq(block, 1, n) : n \in 0..31 }
            \cup { [block EXCEPT ![k] = row] :
                     k \in {1, 4, 26, 30, 32}, row \in { << >>, << << >> >>, <<<<"n", "/", "a">>>> } }

StatsBlocks == NumberedBlocks \cup BrokenStatsBlocks

InitStats ==
    /\ rows \in StatsBlocks
    /\ mapper = "none"
    /\ entities = NotCalled
    /\ lookup = NotCalled
    /\ NoMoneyCall
    /\ NoRun

CallBudgetStatsFromRows ==
    /\ mapper = "none"
    /\ mapper' = "BudgetStats"
    /\ entities' = BudgetStats_from_rows(rows)
    /\ UNCHANGED <<rows, lookup, moneyVars, summaryVars, debugVars>>

NextStats == CallBudgetStatsFromRows

SpecStats == InitStats /\ [][NextStats]_vars

(***************************************************************************)
(* The statistics as the claims describe them                              *)
(***************************************************************************)
\* the amount fields and the rows they are read from, rows counted from 0
AmountRowOf ==
    [ total_budget |-> 3,
      income_at_period_start |-> 5,
      checking_amount_period_start |-> 7,
      total_withheld_required_payments |-> 9,
      total_withheld_savings |-> 11,
      balance_after_withheld |-> 13,
      budget_after_withheld |-> 15,
      allocated_spending_budget |-> 17,
      balance_after_withheld_and_spending |-> 19,
      budget_after_withheld_and_spending |-> 21,
      budget_after_withheld_and_spent |-> 23,
      checking_floor |-> 29,
      free_to_spend |-> 31 ]

FieldRows == {0, 25, 27} \cup {AmountRowOf[name] : name \in DOMAIN AmountRowOf}

Trimmed(t) ==
    LET inked == {i \in 1..Len(t) : t[i] \notin Whitespace}
    IN  IF inked = {} THEN << >>
        ELSE SubSeq(t, CHOOSE i \in inked : \A j \in inked : i <= j,
                       CHOOSE i \in inked : \A j \in inked : i >= j)

IsTrueText(t) == Lowered(Trimmed(t)) = <<"t", "r", "u", "e">>

StatsDone == mapper = "BudgetStats"

\* every field row is there with a first cell, and the amount cells parse
StatsReadable ==
    /\ \A k \in FieldRows : k + 1 <= Len(rows) /\ rows[k + 1] # << >>
    /\ \A name \in DOMAIN AmountRowOf : CellParses(rows[AmountRowOf[name] + 1][1])

\* C11: BudgetStats.from_rows reads the sixteen fields by fixed row index:
\* income_account is the stripped cell of row 0, each amount field the parsed
\* cell of its row (3, 5, ..., 23, 29, 31), overspent_soft (row 25) and
\* overspent_hard (row 27) are true exactly when the stripped cell is "TRUE"
\* in any case; no other row is read, so the label rows never change the
\* result.  A block without one of these cells, or with an amount cell that
\* does not parse, gives no statistics.
C11_FixedRows ==
    StatsDone =>
        IF StatsReadable
        THEN /\ entities.exc = "none"
             /\ DOMAIN entities.val = DOMAIN AmountRowOf
                    \cup {"income_account", "overspent_soft", "overspent_hard"}
             /\ entities.val.income_account = Trimmed(rows[1][1])
             /\ \A name \in DOMAIN AmountRowOf :
                    entities.val[name] = AmountOfCell(rows[AmountRowOf[name] + 1][1])
             /\ entities.val.overspent_soft = IsTrueText(rows[26][1])
             /\ entities.val.overspent_hard = IsTrueText(rows[28][1])
        ELSE entities.exc \in {"IndexError", "ValueError"}

\* a block whose label rows read "TRUE", with " True " and "TRUE1" as flags
C11_Witness ==
    /\ StatsDone
    /\ rows = NumberedStats(<<<<"T", "R", "U", "E">>>>, <<" ", "T", "r", "u", "e", " ">>, <<"T", "R", "U", "E", "1">>, 2)
    /\ entities.exc = "none"
    /\ entities.val.income_account = <<"J", "o", "i", "n", "t", " ", "C", "h", "e", "c", "k", "i", "n", "g">>
    /\ entities.val.total_budget = 6 * Units
    /\ entities.val.budget_after_withheld_and_spent = 46 * Units
    /\ entities.val.checking_floor = 58 * Units
    /\ entities.val.free_to_spend = 62 * Units
    /\ entities.val.overspent_soft = TRUE
    /\ entities.val.overspent_hard = FALSE

(***************************************************************************)
(* Runs over sheets whose budget blocks and category block vary            *)
(***************************************************************************)
MaxBudgetRows == 2      \* rows of the manual and of the recurring block

RecurringRow(subcategory, due) ==
    << subcategory, <<" ", "p", "l", "a", "n", " ">>, <<"$", "9", "0">>, <<"3", "0">>, <<"F", "A", "L", "S", "E">>, <<"C", "h", "e", "c", "k", "i", "n", "g">>, << >>, due >>

ManualRowSet ==
    { <<<<"F", "o", "o", "d">>, <<"$", "3", "0", "0">>, <<"w", "e", "e", "k", "l", "y", " ", "s", "h", "o", "p">>, <<"T", "R", "U", "E">>>>, <<<<" ", "F", "u", "n">>, <<"$", "5", "0">>, <<" ">>, <<"F", "A", "L", "S", "E">>>> }

RecurringRowSet ==
    { RecurringRow(<<"R", "e", "n", "t">>, due) : due \in {<<"0", "3", "/", "0", "1", "/", "2", "0", "2", "4">>, <<"0", "2", "/", "1", "5", "/", "2", "0", "2", "4">>, <<"0", "1", "/", "0", "1", "/", "0", "0", "0", "1">>} }
        \cup { RecurringRow(<<"F", "u", "e", "l", " ">>, <<"0", "2", "/", "1", "5", "/", "2", "0", "2", "4">>), RecurringRow(<<"G", "y", "m">>, <<"0", "3", "/", "0", "1", "/", "2", "0", "2", "4">>) }

\* a table whose second header is blank and that lists Fuel under Home
OtherCategories == << <<<<"H", "o", "m", "e">>, << >>, <<"C", "a", "r">>>>, <<<<"R", "e", "n", "t">>, <<"G", "y", "m">>, << >>>>, <<<<"F", "u", "e", "l">>>> >>

BudgetSheets ==
    { [DefaultSheet EXCEPT !.manual = m, !.recurring = r] :
        m \in BlocksUpTo(ManualRowSet, MaxBudgetRows),
        r \in BlocksUpTo(RecurringRowSet, MaxBudgetRows) }
      \cup
    { [DefaultSheet EXCEPT !.categories = OtherCategories, !.recurring = r] :
        r \in BlocksUpTo(RecurringRowSet, MaxBudgetRows) }
      \cup
    { [DefaultSheet EXCEPT !.categories = << >>],
      [DefaultSheet EXCEPT !.period_size = << <<<<"t", "w", "o", " ", "w", "e", "e", "k", "s">>>> >>] }

InitBudgets ==
    /\ sheet \in BudgetSheets
    /\ summary = NotCalled
    /\ today = RefDay
    /\ context = NotCalled
    /\ renders = 0
    /\ NoMoneyCall
    /\ NoMapperCall
    /\ subject = NotCalled
    /\ NoDebug

SpecBudgets == InitBudgets /\ [][NextSummary]_vars

(***************************************************************************)
(* The budget list as the claims describe it                               *)
(***************************************************************************)
Ran == summary # NotCalled

\* some list of the category block holds the text: a non-empty cell of a
\* row after the first, in a column that has a header
Listed(text) ==
    /\ text # << >>
    /\ \E r \in 2..Len(sheet.categories) :
          \E j \in 1..Len(sheet.categories[r]) :
             j <= Len(sheet.categories[1]) /\ sheet.categories[r][j] = text

UnlistedRecurringRow ==
    \E i \in 1..Len(sheet.recurring) : ~Listed(Trimmed(sheet.recurring[i][1]))

\* C12: when a recurring budget row has a subcategory that no list of the
\* category table holds, building the budgets raises: the run has no
\* Summary (so no budget list, neither with the row left out nor with an
\* empty category), and nothing is rendered.
C12_UnknownSubcategoryAborts ==
    (Ran /\ sheet.categories # << >> /\ UnlistedRecurringRow) =>
        /\ summary.exc # "none"
        /\ context = NotCalled
        /\ renders = 0

\* "Gym" after a row that resolves, with the default table
C12_Witness ==
    /\ Ran
    /\ sheet.categories = DefaultSheet.categories
    /\ sheet.recurring = << RecurringRow(<<"R", "e", "n", "t">>, <<"0", "2", "/", "1", "5", "/", "2", "0", "2", "4">>),
                           RecurringRow(<<"G", "y", "m">>, <<"0", "3", "/", "0", "1", "/", "2", "0", "2", "4">>) >>
    /\ UnlistedRecurringRow
    /\ summary = Raise("Exception")
    /\ renders = 0

Undated(budget) == budget.next_approx_payment = NoDate

\* the budgets in the order of the rows: manual block, then recurring block
BudgetsAsRead ==
    Budget_from_manual_budget_range(summary.val.period_size, sheet.manual).val
        \o Budget_from_recurring_budget_range(cat2subcat(sheet.categories).val,
                                              sheet.recurring).val

SameRank(a, b) ==
    \/ Undated(a) /\ Undated(b)
    \/ ~Undated(a) /\ ~Undated(b) /\ a.next_approx_payment = b.next_approx_payment

Orderings(n) == {f \in [1..n -> 1..n] : \A i, j \in 1..n : f[i] = f[j] => i = j}

\* C13: the budget list of the Summary holds the budgets of the manual block
\* and the recurring block, every budget without a due date before every
\* dated one and the dated ones in ascending order of their dates; budgets
\* that are both undated or share a date keep the order of their rows.
C13_BudgetsSorted ==
    Built =>
        LET sorted == summary.val.budgets
            n == Len(sorted)
        IN  /\ n = Len(sheet.manual) + Len(sheet.recurring)
            /\ \A i, j \in 1..n :
                  i < j => /\ ~(Undated(sorted[j]) /\ ~Undated(sorted[i]))
                           /\ (~Undated(sorted[i]) /\ ~Undated(sorted[j]))
                                 => sorted[i].next_approx_payment
                                        <= sorted[j].next_approx_payment
            /\ \E from \in Orderings(n) :
                  /\ \A k \in 1..n : sorted[k] = BudgetsAsRead[from[k]]
                  /\ \A k, l \in 1..n :
                        (k < l /\ SameRank(sorted[k], sorted[l])) => from[k] < from[l]

\* two manual rows, then a row due in March before a row due on the first
\* day of year 1: the undated budgets stay in front, the dated ones swap
C13_Witness ==
    /\ Built
    /\ sheet.manual = << <<<<"F", "o", "o", "d">>, <<"$", "3", "0", "0">>, <<"w", "e", "e", "k", "l", "y", " ", "s", "h", "o", "p">>, <<"T", "R", "U", "E">>>>,
                         <<<<" ", "F", "u", "n">>, <<"$", "5", "0">>, <<" ">>, <<"F", "A", "L", "S", "E">>>> >>
    /\ sheet.recurring = << RecurringRow(<<"R", "e", "n", "t">>, <<"0", "3", "/", "0", "1", "/", "2", "0", "2", "4">>),
                           RecurringRow(<<"R", "e", "n", "t">>, <<"0", "1", "/", "0", "1", "/", "0", "0", "0", "1">>) >>
    /\ [k \in 1..4 |-> summary.val.budgets[k].next_approx_payment]
            = <<NoDate, NoDate, 1, 738946>>
    /\ [k \in 1..2 |-> summary.val.budgets[k].category] = <<<<"F", "o", "o", "d">>, <<"F", "u", "n">>>>

(***************************************************************************)
(* One budget row under the two constructors, with the category table      *)
(* main builds before it reads the budget blocks                           *)
(***************************************************************************)
\* the category table after from_recurring_budget_row has used it: the loop
\* pops the subcategory it found
cat2subcat_after_lookup_Pops(table, subcategory) ==
    [n \in 1..Len(table) |->
        [cat |-> table[n].cat,
         subs |-> SelectSeq(table[n].subs, LAMBDA sub : sub # subcategory)]]

\* the category table after from_recurring_budget_row has used it: the loop
\* only reads it
cat2subcat_after_lookup(table, subcategory) == table

CategoryBlocks ==
    { DefaultSheet.categories,
      OtherCategories,
      << <<<<"H", "o", "m", "e">>, <<"C", "a", "r">>, <<"H", "o", "m", "e">>>>, <<<<"R", "e", "n", "t">>, <<"F", "u", "e", "l">>, <<"P", "o", "w", "e", "r">>>>, << << >>, <<" ">>, <<"F", "u", "e", "l">>, <<"G", "y", "m">>>> >>,
      << <<<<"H", "o", "m", "e">>, <<"C", "a", "r">>>> >>,
      << >> }

ManualRows ==
    { <<category, <<"$", "3", "0", "0">>, detail, flag>> :
        category \in {<<"F", "o", "o", "d">>, <<" ", "F", "u", "n", " ">>, << >>},
        detail \in {<<"w", "e", "e", "k", "l", "y", " ", "s", "h", "o", "p">>, <<" ", "o", "u", "t", " ">>, <<" ">>, << >>, <<"/">>},
        flag \in {<<"T", "R", "U", "E">>, <<"F", "A", "L", "S", "E">>, <<"f", "a", "l", "s", "e">>, << >>} }
      \cup { <<<<"F", "o", "o", "d">>, <<"n", "/", "a">>, <<"x">>, <<"T", "R", "U", "E">>>>, <<<<"F", "o", "o", "d">>, <<"$", "3", "0", "0">>, <<"x">>>> }

RecurringRows ==
    { <<subcategory, <<" ", "p", "l", "a", "n", " ">>, <<"$", "9", "0">>, <<"3", "0">>, flag, <<"C", "h", "e", "c", "k", "i", "n", "g">>, << >>, <<"0", "3", "/", "0", "1", "/", "2", "0", "2", "4">>>> :
        subcategory \in {<<"R", "e", "n", "t">>, <<" ", "F", "u", "e", "l", " ">>, <<"G", "y", "m">>, <<"P", "o", "w", "e", "r">>, <<"N", "o", "p", "e">>, <<" ">>, << >>},
        flag \in {<<"T", "R", "U", "E">>, <<"F", "A", "L", "S", "E">>, <<"F", "a", "l", "s", "e">>, << >>} }
      \cup { <<<<"R", "e", "n", "t">>, <<"p", "l", "a", "n">>, <<"$", "9", "0">>, <<"3", "0">>, <<"F", "A", "L", "S", "E">>, <<"C", "h", "e", "c", "k", "i", "n", "g">>, << >>, <<"s", "o", "o", "n">>>>,
             <<<<"R", "e", "n", "t">>, <<"p", "l", "a", "n">>, <<"$", "9", "0">>, <<"a", " ", "m", "o", "n", "t", "h">>, <<"F", "A", "L", "S", "E">>, <<"C", "h", "e", "c", "k", "i", "n", "g">>, << >>, <<"0", "3", "/", "0", "1", "/", "2", "0", "2", "4">>>>,
             <<<<"R", "e", "n", "t">>, <<"p", "l", "a", "n">>, <<"$", "9", "0">>, <<"3", "0">>, <<"F", "A", "L", "S", "E">>, <<"C", "h", "e", "c", "k", "i", "n", "g">>, << >>>> }

PeriodSize == float(<<"1", "4">>).val

InitBudgetRow ==
    /\ rows \in [categories : CategoryBlocks, row : ManualRows \cup RecurringRows]
    /\ mapper = "none"
    /\ entities = NotCalled
    /\ lookup = NotCalled
    /\ NoMoneyCall
    /\ NoRun

\* main: the category table is built from the categories block
BuildCat2subcat ==
    /\ lookup = NotCalled
    /\ lookup' = cat2subcat(rows.categories)
    /\ UNCHANGED <<rows, mapper, entities, moneyVars, summaryVars, debugVars>>

CallFromManualBudgetRow ==
    /\ lookup.exc = "none"
    /\ mapper = "none"
    /\ mapper' = "Manual"
    /\ entities' = Budget_from_manual_budget_row(PeriodSize, rows.row)
    /\ UNCHANGED <<rows, lookup, moneyVars, summaryVars, debugVars>>

CallFromRecurringBudgetRow ==
    /\ lookup.exc = "none"
    /\ mapper = "none"
    /\ mapper' = "Recurring"
    /\ entities' = Budget_from_recurring_budget_row(lookup.val, rows.row)
    /\ lookup' = Return(cat2subcat_after_lookup(lookup.val, strip(rows.row[1])))
    /\ UNCHANGED <<rows, moneyVars, summaryVars, debugVars>>

NextBudgetRow == BuildCat2subcat \/ CallFromManualBudgetRow \/ CallFromRecurringBudgetRow

SpecBudgetRow == InitBudgetRow /\ [][NextBudgetRow]_vars

(***************************************************************************)
(* Runs over sheets whose spendable range varies                           *)
(***************************************************************************)
MaxSpendableRows == 3

SpendableRow(category, left_today) == << category, <<"$", "5", "0">>, <<"$", "5">>, left_today >>

SpendableRowSet ==
    { SpendableRow(<<"F", "o", "o", "d">>, <<"$", "2">>), SpendableRow(<<"F", "u", "n">>, <<"$", "7">>), SpendableRow(<<"G", "a", "s">>, <<"$", "2", ".", "0", "0">>),
      << <<"P", "e", "t", "s">>, <<"$", "0", ".", "1", "0">>, <<"$", "5">>, <<"-", "$", "1">> >>,
      << <<"G", "i", "f", "t", "s">>, <<"$", "0", ".", "0", "0">>, <<"$", "0">>, <<"0">> >> }

SpendableSheets ==
    { [DefaultSheet EXCEPT !.spendable = block] :
        block \in BlocksUpTo(SpendableRowSet, MaxSpendableRows) }

InitSpendable ==
    /\ sheet \in SpendableSheets
    /\ summary = NotCalled
    /\ today = RefDay
    /\ context = NotCalled
    /\ renders = 0
    /\ NoMoneyCall
    /\ NoMapperCall
    /\ subject = NotCalled
    /\ NoDebug

SpecSpendable == InitSpendable /\ [][NextSummary]_vars

Descending(list) ==
    \A k \in 1..(Len(list) - 1) : list[k].left_today >= list[k + 1].left_today

\* C14: the spendable overviews handed to the template are the stored ones
\* rearranged so that left_today never increases along the list, elements of
\* equal left_today in their stored order; a stored list that is already in
\* that order is handed over as it is, and sorting the result again changes
\* nothing.
C14_SpendableSorted ==
    Rendered =>
        LET shown == context.val.spendable_overviews
            stored == summary.val.spendable_overviews
            n == Len(stored)
        IN  /\ Len(shown) = n
            /\ Descending(shown)
            /\ \E from \in Orderings(n) :
                  /\ \A k \in 1..n : shown[k] = stored[from[k]]
                  /\ \A k, l \in 1..n :
                        (k < l /\ shown[k].left_today = shown[l].left_today)
                            => from[k] < from[l]
            /\ Descending(stored) => shown = stored
            /\ sorted_by_left_today(shown) = shown

\* Food 2, Fun 7, Gas 2.00 are shown as Fun, Food, Gas
C14_Witness ==
    /\ Rendered
    /\ sheet.spendable = << SpendableRow(<<"F", "o", "o", "d">>, <<"$", "2">>), SpendableRow(<<"F", "u", "n">>, <<"$", "7">>),
                           SpendableRow(<<"G", "a", "s">>, <<"$", "2", ".", "0", "0">>) >>
    /\ [k \in 1..3 |-> summary.val.spendable_overviews[k].category] = <<<<"F", "o", "o", "d">>, <<"F", "u", "n">>, <<"G", "a", "s">>>>
    /\ [k \in 1..3 |-> context.val.spendable_overviews[k].category] = <<<<"F", "u", "n">>, <<"F", "o", "o", "d">>, <<"G", "a", "s">>>>

\* the amounts added one after the other, from 0.0
RECURSIVE AddedUp(_, _)
AddedUp(list, n) ==
    IF n = 0 THEN Zero
    ELSE FAdd(AddedUp(list, n - 1), ToDouble(list[n].spendable_amount))

\* C22: SpendableOverview.from_range filters nothing: a block of well-formed
\* rows gives one entity per row, in input order, rows of zero amounts
\* included, and the remaining spendable total handed to the template is the
\* sum of spendable_amount over all of them.
C22_SpendableAllKept ==
    /\ Built =>
          LET stored == summary.val.spendable_overviews
          IN  /\ Len(stored) = Len(sheet.spendable)
              /\ \A k \in 1..Len(stored) :
                    stored[k] = [category |-> sheet.spendable[k][1],
                                 spendable_amount |-> AmountOfCell(sheet.spendable[k][2]),
                                 future_daily |-> AmountOfCell(sheet.spendable[k][3]),
                                 left_today |-> AmountOfCell(sheet.spendable[k][4])]
    /\ Rendered =>
          context.val.remaining_sum =
              AddedUp(summary.val.spendable_overviews, Len(sheet.spendable))

\* a row of zero amounts between two others: three entities, and the total
\* 50 + 0 + 0.10 as a float
C22_Witness ==
    /\ Rendered
    /\ sheet.spendable = << SpendableRow(<<"F", "o", "o", "d">>, <<"$", "2">>), << <<"G", "i", "f", "t", "s">>, <<"$", "0", ".", "0", "0">>, <<"$", "0">>, <<"0">> >>,
                           << <<"P", "e", "t", "s">>, <<"$", "0", ".", "1", "0">>, <<"$", "5">>, <<"-", "$", "1">> >> >>
    /\ Len(summary.val.spendable_overviews) = 3
    /\ summary.val.spendable_overviews[2].spendable_amount = 0
    /\ context.val.remaining_sum = ToDouble(50 * Units + Units \div 10)

(***************************************************************************)
(* Runs in which the subject line is computed                              *)
(***************************************************************************)
StartDateTexts == { <<"0", "2", "/", "2", "7", "/", "2", "0", "2", "4">>, <<"2", "/", "2", "8", "/", "2", "0", "2", "4">> }

PeriodEndTexts == { <<"0", "2", "/", "2", "8", "/", "2", "0", "2", "4">>, <<"0", "2", "/", "2", "9", "/", "2", "0", "2", "4">>, <<"0", "3", "/", "0", "1", "/", "2", "0", "2", "4">> }

FullNames == { <<"A", "d", "a", " ", "P", "a", "r", "k">>, <<"A", "l">> }

SubjectSheets ==
    { [DefaultSheet EXCEPT !.start_date = << <<s>> >>, !.end_date = << <<e>> >>,
                           !.full_name = n] :
        s \in StartDateTexts, e \in PeriodEndTexts, n \in FullNames }

InitSubject ==
    /\ sheet \in SubjectSheets
    /\ summary = NotCalled
    /\ today \in (RefDay - DaysAround)..(RefDay + DaysAround)
    /\ context = NotCalled
    /\ renders = 0
    /\ subject = NotCalled
    /\ NoMoneyCall
    /\ NoMapperCall
    /\ NoDebug

\* summary.to_email_subject(); the result is kept with the day of the call
Subject ==
    /\ summary.exc = "none"
    /\ subject' = Return([text |-> to_email_subject(summary.val, today), on |-> today])
    /\ UNCHANGED <<sheet, summary, today, context, renders, moneyVars, mapperVars, debugVars>>

NextSubject == Main \/ Subject \/ NextDay

SpecSubject == InitSubject /\ [][NextSubject]_vars

SubjectMade == subject.exc = "none"

NewPeriodSubject(name) == <<"N", "E", "W", " ", "B", "U", "D", "G", "E", "T", " ", "U", "N", "L", "O", "C", "K", "E", "D", " ", "F", "O", "R", " ">> \o name \o <<"!", "!", "!", " ", "-", " ", "B", "u", "d", "g", "e", "t", " ", "R", "e", "m", "i", "n", "d", "e", "r">>

ReminderSubject(name) == name \o <<" ", "B", "u", "d", "g", "e", "t", " ", "R", "e", "m", "i", "n", "d", "e", "r">>

\* C16: to_email_subject returns "NEW BUDGET UNLOCKED FOR <name>!!! - Budget
\* Reminder" when the day of the call is the period's start date, and
\* "<name> Budget Reminder" on every other day: before the start date, after
\* it, and on the end date.
C16_SubjectByStartDate ==
    SubjectMade =>
        /\ subject.val.on = summary.val.start_date
              => subject.val.text = NewPeriodSubject(sheet.full_name)
        /\ subject.val.on # summary.val.start_date
              => subject.val.text = ReminderSubject(sheet.full_name)
        /\ NewPeriodSubject(sheet.full_name) # ReminderSubject(sheet.full_name)

\* asked on 29 February 2024, the end date of a period that started on the
\* 28th: the reminder subject
C16_Witness ==
    /\ SubjectMade
    /\ sheet.start_date = << <<<<"2", "/", "2", "8", "/", "2", "0", "2", "4">>>> >>
    /\ sheet.end_date = << <<<<"0", "2", "/", "2", "9", "/", "2", "0", "2", "4">>>> >>
    /\ sheet.full_name = <<"A", "l">>
    /\ summary.val.start_date = 738944
    /\ subject.val.on = 738945
    /\ subject.val.text = <<"A", "l", " ", "B", "u", "d", "g", "e", "t", " ", "R", "e", "m", "i", "n", "d", "e", "r">>

\* the new-period subject on the start date itself
C16_WitnessNew ==
    /\ SubjectMade
    /\ subject.val.on = 738944
    /\ summary.val.start_date = 738944
    /\ subject.val.text = <<"N", "E", "W", " ", "B", "U", "D", "G", "E", "T", " ", "U", "N", "L", "O", "C", "K", "E", "D", " ", "F", "O", "R", " ", "A", "l", "!", "!", "!", " ", "-", " ", "B", "u", "d", "g", "e", "t", " ", "R", "e", "m", "i", "n", "d", "e", "r">>

(***************************************************************************)
(* The modes of a run, and debug_server.debug_mode: the polling loop of    *)
(* the main thread, the input listener, the serve_forever threads of the   *)
(* servers, and what the user, the HTTP clients and the editor of the      *)
(* template do meanwhile                                                   *)
(***************************************************************************)
MaxEdits == 1           \* changes of the template file during a run
DefaultPort == 8000
LowestPort == 1024
HighestPort == 65535

\* what the user types, line by line
InputScripts ==
    { << >>,
      <<<<"q">>>>,
      <<<<" ", "Q", " ">>>>,
      <<<<"r">>, << >>, <<"q">>>>,
      <<<<"r">>, <<"9", "0", "0", "0">>, <<"q">>>>,
      <<<<"x">>, <<"R">>, <<"8", "0">>, <<"r">>, <<"a", "b", "c">>>>,
      <<<<"r">>>> }

\* a TCPServer: bound and listening from its construction; the two private
\* fields of socketserver.BaseServer that shutdown() and serve_forever share
NewServer(p) ==
    [port |-> p, state |-> "created", shutdown_request |-> FALSE, is_shut_down |-> FALSE]

At(position) == pc.main = position

Goto(position) == pc' = [pc EXCEPT !.main = position]

\* sheets on which a step of main raises: a statistics row without a cell, a
\* statistics range one row short, an amount that is no number, a
\* subcategory no category lists, a date that is no date
FailingSheets ==
    { ShortStatsSheet,
      [DefaultSheet EXCEPT !.stats[30] = << >>],
      [DefaultSheet EXCEPT !.stats = << >>],
      [DefaultSheet EXCEPT !.spendable[1][2] = <<"n", "/", "a">>],
      [DefaultSheet EXCEPT !.recurring[1][1] = <<"G", "y", "m">>],
      [DefaultSheet EXCEPT !.end_date = << <<<<"s", "o", "o", "n">>>> >>] }

Modes == {"debug", "dry_run", "send"}

InitDebug ==
    /\ sheet \in {DefaultSheet} \cup FailingSheets
    /\ summary = NotCalled
    /\ today = RefDay
    /\ context = NotCalled
    /\ renders = 0
    /\ subject = NotCalled
    /\ pc = [main |-> "off", input |-> "off"]
    /\ quit_flag = FALSE
    /\ restart_flag = FALSE
    /\ port = DefaultPort
    /\ httpd = 0
    /\ servers = << >>
    /\ template \in {0, 1}
    /\ last_mtime = 0
    /\ stdin \in InputScripts
    /\ mode \in Modes
    /\ emails = 0
    /\ printed = 0
    /\ exit_status = "running"
    /\ NoMoneyCall
    /\ NoMapperCall

\* if args.debug / elif args.dry_run / else
DispatchDebug ==
    /\ At("off") /\ summary.exc = "none"
    /\ mode = "debug"
    /\ Goto("debug_mode")
    /\ UNCHANGED <<outVars, moneyVars, mapperVars, summaryVars, quit_flag, restart_flag, port, httpd,
                   servers, template, last_mtime, stdin>>

DispatchDryRun ==
    /\ At("off") /\ summary.exc = "none"
    /\ mode = "dry_run"
    /\ Goto("dry_run")
    /\ UNCHANGED <<outVars, moneyVars, mapperVars, summaryVars, quit_flag, restart_flag, port, httpd,
                   servers, template, last_mtime, stdin>>

DispatchSend ==
    /\ At("off") /\ summary.exc = "none"
    /\ mode = "send"
    /\ Goto("send")
    /\ UNCHANGED <<outVars, moneyVars, mapperVars, summaryVars, quit_flag, restart_flag, port, httpd,
                   servers, template, last_mtime, stdin>>

\* budget_summary.to_email_html(template): the template has to be there
ToEmailHtml ==
    /\ context' = Return(to_email_html(summary.val, today))
    /\ renders' = renders + 1
    /\ summary' = Return(summary_after_render(summary.val))

\* print(budget_summary.to_email_html(args.template))
DryRunRender ==
    /\ At("dry_run")
    /\ IF template = 0
       THEN Goto("failed") /\ UNCHANGED <<context, renders, summary, printed>>
       ELSE Goto("printed") /\ ToEmailHtml /\ printed' = printed + 1
    /\ UNCHANGED <<mode, emails, exit_status, moneyVars, mapperVars, sheet, today, subject, quit_flag, restart_flag,
                   port, httpd, servers, template, last_mtime, stdin>>

\* email_client.EmailClient(account.email, account.app_password): ValueError
\* when there is no app password
MakeEmailClient ==
    /\ At("send")
    /\ \E app_password \in BOOLEAN :
          IF app_password THEN Goto("send_subject") ELSE Goto("failed")
    /\ UNCHANGED <<outVars, moneyVars, mapperVars, summaryVars, quit_flag, restart_flag, port,
                   httpd, servers, template, last_mtime, stdin>>

\* subject=budget_summary.to_email_subject()
SendSubject ==
    /\ At("send_subject")
    /\ subject' = Return([text |-> to_email_subject(summary.val, today), on |-> today])
    /\ Goto("send_html")
    /\ UNCHANGED <<outVars, moneyVars, mapperVars, sheet, summary, today, context, renders,
                   quit_flag, restart_flag, port, httpd, servers, template, last_mtime, stdin>>

\* body_html=budget_summary.to_email_html(args.template); send_email follows
SendRender ==
    /\ At("send_html")
    /\ IF template = 0
       THEN Goto("failed") /\ UNCHANGED <<context, renders, summary>>
       ELSE Goto("send_email") /\ ToEmailHtml
    /\ UNCHANGED <<outVars, moneyVars, mapperVars, sheet, today, subject, quit_flag, restart_flag,
                   port, httpd, servers, template, last_mtime, stdin>>

\* what the mail server does with the message: it takes it, it refuses the
\* connection, the login or the message, or it takes it and the connection
\* fails while it is closed
MailOutcomes == {"sent", "refused", "sent, close failed"}

\* send_email(...): one sendmail call for all the recipients
SendEmail ==
    /\ At("send_email")
    /\ \E outcome \in MailOutcomes :
          /\ emails' = IF outcome = "refused" THEN emails ELSE emails + 1
          /\ IF outcome = "sent" THEN Goto("sent") ELSE Goto("failed")
    /\ UNCHANGED <<mode, printed, exit_status, moneyVars, mapperVars, summaryVars, quit_flag,
                   restart_flag, port, httpd, servers, template, last_mtime, stdin>>

\* an error handler that lets the run end as if nothing had happened
handler_exit_status_Swallows(e) == "0"

\* except Exception as e: ... sys.exit(1)
handler_exit_status(e) == "1"

\* the except clause of main: a step of the try block has raised
ExceptException ==
    /\ \/ At("off") /\ summary.exc \notin {"none", "not called"}
       \/ At("failed")
    /\ exit_status' = handler_exit_status(summary.exc)
    /\ Goto("exited")
    /\ UNCHANGED <<mode, emails, printed, moneyVars, mapperVars, summaryVars, quit_flag,
                   restart_flag, port, httpd, servers, template, last_mtime, stdin>>

\* main returns: after the print, after send_email, or when debug_mode
\* returned early
MainReturns ==
    /\ At("printed") \/ At("sent") \/ At("returned")
    /\ exit_status' = "0"
    /\ Goto("exited")
    /\ UNCHANGED <<mode, emails, printed, moneyVars, mapperVars, summaryVars, quit_flag,
                   restart_flag, port, httpd, servers, template, last_mtime, stdin>>

\* debug_mode up to the first render
EnterDebugMode ==
    /\ At("debug_mode")
    /\ IF template = 0
       THEN Goto("returned") /\ UNCHANGED last_mtime
       ELSE Goto("initial_render") /\ last_mtime' = template
    /\ UNCHANGED <<outVars, moneyVars, mapperVars, summaryVars, quit_flag, restart_flag, port, httpd,
                   servers, template, stdin>>

\* render_html(): False when the render raises, and nothing is written
render_html ==
    IF template = 0 THEN UNCHANGED <<context, renders, summary>> ELSE ToEmailHtml

InitialRender ==
    /\ At("initial_render")
    /\ render_html
    /\ IF template = 0 THEN Goto("returned") ELSE Goto("initial_start")
    /\ UNCHANGED <<outVars, moneyVars, mapperVars, sheet, today, subject, quit_flag, restart_flag,
                   port, httpd, servers, template, last_mtime, stdin>>

\* start_server(): the server is created and its thread started, or the
\* bind fails with "Address already in use" (reported as a success), or
\* with another OSError
StartOutcomes == {"started", "in use", "failed"}

start_server(outcome) ==
    IF outcome = "started"
    THEN /\ servers' = Append(servers, NewServer(port))
         /\ httpd' = Len(servers) + 1
    ELSE UNCHANGED <<servers, httpd>>

InitialStart ==
    /\ At("initial_start")
    /\ \E outcome \in StartOutcomes :
          /\ start_server(outcome)
          /\ IF outcome = "failed" THEN Goto("returned") ELSE Goto("listen")
    /\ UNCHANGED <<outVars, moneyVars, mapperVars, summaryVars, quit_flag, restart_flag, port,
                   template, last_mtime, stdin>>

\* the browser is opened, the events are created, the listener is started
StartListener ==
    /\ At("listen")
    /\ quit_flag' = FALSE
    /\ restart_flag' = FALSE
    /\ pc' = [main |-> "while", input |-> "read"]
    /\ UNCHANGED <<outVars, moneyVars, mapperVars, summaryVars, port, httpd, servers, template,
                   last_mtime, stdin>>

\* while not quit_flag.is_set()
LoopTest ==
    /\ At("while")
    /\ IF quit_flag THEN Goto("after_loop") ELSE Goto("sleep")
    /\ UNCHANGED <<outVars, moneyVars, mapperVars, summaryVars, quit_flag, restart_flag, port, httpd,
                   servers, template, last_mtime, stdin>>

\* time.sleep(0.5)
Sleep ==
    /\ At("sleep")
    /\ Goto("check_restart")
    /\ UNCHANGED <<outVars, moneyVars, mapperVars, summaryVars, quit_flag, restart_flag, port, httpd,
                   servers, template, last_mtime, stdin>>

\* if restart_flag.is_set(): restart_flag.clear()
CheckRestart ==
    /\ At("check_restart")
    /\ IF restart_flag
       THEN restart_flag' = FALSE /\ Goto("shutdown_old")
       ELSE UNCHANGED restart_flag /\ Goto("check_template")
    /\ UNCHANGED <<outVars, moneyVars, mapperVars, summaryVars, quit_flag, port, httpd, servers,
                   template, last_mtime, stdin>>

\* httpd.shutdown() asks the serve loop to stop ...
request_shutdown == servers' = [servers EXCEPT ![httpd].shutdown_request = TRUE]

\* a shutdown() that returns without waiting for the serve loop
shutdown_returns_AtOnce(server) == TRUE

\* ... and returns when the serve loop has set is_shut_down
shutdown_returns(server) == server.is_shut_down

\* if httpd: httpd.shutdown()
ShutdownOld ==
    /\ At("shutdown_old")
    /\ IF httpd # 0
       THEN request_shutdown /\ Goto("await_old")
       ELSE UNCHANGED servers /\ Goto("rerender")
    /\ UNCHANGED <<outVars, moneyVars, mapperVars, summaryVars, quit_flag, restart_flag, port, httpd,
                   template, last_mtime, stdin>>

\* shutdown() returns; httpd = None; server_thread = None
AwaitOld ==
    /\ At("await_old")
    /\ shutdown_returns(servers[httpd])
    /\ httpd' = 0
    /\ Goto("rerender")
    /\ UNCHANGED <<outVars, moneyVars, mapperVars, summaryVars, quit_flag, restart_flag, port,
                   servers, template, last_mtime, stdin>>

\* render_html(), its result unused
Rerender ==
    /\ At("rerender")
    /\ render_html
    /\ Goto("start_new")
    /\ UNCHANGED <<outVars, moneyVars, mapperVars, sheet, today, subject, quit_flag, restart_flag,
                   port, httpd, servers, template, last_mtime, stdin>>

\* if start_server(): ... else: ...
StartNew ==
    /\ At("start_new")
    /\ \E outcome \in StartOutcomes :
          /\ start_server(outcome)
          /\ IF outcome = "failed" THEN Goto("restart_failed") ELSE Goto("restarted")
    /\ UNCHANGED <<outVars, moneyVars, mapperVars, summaryVars, quit_flag, restart_flag, port,
                   template, last_mtime, stdin>>

\* "Server restarted successfully!" or "Failed to restart server"; continue
ReportRestart ==
    /\ At("restarted") \/ At("restart_failed")
    /\ Goto("while")
    /\ UNCHANGED <<outVars, moneyVars, mapperVars, summaryVars, quit_flag, restart_flag, port,
                   httpd, servers, template, last_mtime, stdin>>

\* os.path.getmtime(template_path) and the comparison with last_mtime
CheckTemplate ==
    /\ At("check_template")
    /\ IF template = 0
       THEN Goto("while") /\ UNCHANGED last_mtime          \* FileNotFoundError
       ELSE IF template # last_mtime
       THEN Goto("changed") /\ last_mtime' = template
       ELSE Goto("while") /\ UNCHANGED last_mtime
    /\ UNCHANGED <<outVars, moneyVars, mapperVars, summaryVars, quit_flag, restart_flag, port, httpd,
                   servers, template, stdin>>

RenderChanged ==
    /\ At("changed")
    /\ render_html
    /\ Goto("while")
    /\ UNCHANGED <<outVars, moneyVars, mapperVars, sheet, today, subject, quit_flag, restart_flag,
                   port, httpd, servers, template, last_mtime, stdin>>

LoopPositions ==
    {"while", "sleep", "check_restart", "shutdown_old", "await_old", "rerender",
     "start_new", "restarted", "restart_failed", "check_template", "changed"}

\* Ctrl+C inside the try: except KeyboardInterrupt
Interrupt ==
    /\ pc.main \in LoopPositions
    /\ Goto("after_loop")
    /\ UNCHANGED <<outVars, moneyVars, mapperVars, summaryVars, quit_flag, restart_flag, port, httpd,
                   servers, template, last_mtime, stdin>>

\* after the loop: if httpd: httpd.shutdown()
AfterLoop ==
    /\ At("after_loop")
    /\ IF httpd # 0
       THEN request_shutdown /\ Goto("await_last")
       ELSE UNCHANGED servers /\ Goto("goodbye")
    /\ UNCHANGED <<outVars, moneyVars, mapperVars, summaryVars, quit_flag, restart_flag, port, httpd,
                   template, last_mtime, stdin>>

AwaitLast ==
    /\ At("await_last")
    /\ shutdown_returns(servers[httpd])
    /\ Goto("goodbye")
    /\ UNCHANGED <<outVars, moneyVars, mapperVars, summaryVars, quit_flag, restart_flag, port, httpd,
                   servers, template, last_mtime, stdin>>

\* sys.exit(0): the daemon threads end with the process
Goodbye ==
    /\ At("goodbye")
    /\ exit_status' = "0"
    /\ pc' = [main |-> "exited", input |-> "ended"]
    /\ servers' = [k \in 1..Len(servers) |->
                      IF servers[k].state = "stopped" THEN servers[k]
                      ELSE [servers[k] EXCEPT !.state = "killed"]]
    /\ UNCHANGED <<mode, emails, printed, moneyVars, mapperVars, summaryVars, quit_flag, restart_flag, port, httpd,
                   template, last_mtime, stdin>>

\* int(new_port_input), for texts of digits and letters
int(text) ==
    IF text # << >> /\ AllDigits(text)
    THEN Return(DigitsValue(text, 1, Len(text) + 1))
    ELSE Raise("ValueError")

\* input_thread: user_input = input() and the command it holds
ReadCommand ==
    /\ pc.input = "read"
    /\ IF quit_flag \/ stdin = << >>                     \* loop test / EOFError
       THEN pc' = [pc EXCEPT !.input = "ended"] /\ UNCHANGED <<quit_flag, stdin>>
       ELSE /\ stdin' = Tail(stdin)
            /\ IF lower(strip(Head(stdin))) = <<"q">>
               THEN quit_flag' = TRUE /\ pc' = [pc EXCEPT !.input = "ended"]
               ELSE IF lower(strip(Head(stdin))) = <<"r">>
               THEN UNCHANGED quit_flag /\ pc' = [pc EXCEPT !.input = "ask_port"]
               ELSE UNCHANGED <<quit_flag, pc>>
    /\ UNCHANGED <<outVars, moneyVars, mapperVars, summaryVars, restart_flag, port, httpd, servers,
                   template, last_mtime>>

\* the port question: a valid new port is taken, anything else keeps the port
ReadPort ==
    /\ pc.input = "ask_port"
    /\ IF stdin = << >>
       THEN pc' = [pc EXCEPT !.input = "ended"] /\ UNCHANGED <<port, stdin>>   \* EOFError
       ELSE /\ stdin' = Tail(stdin)
            /\ pc' = [pc EXCEPT !.input = "set_restart"]
            /\ LET new_port == int(strip(Head(stdin)))
               IN  IF /\ strip(Head(stdin)) # << >>
                      /\ new_port.exc = "none"
                      /\ LowestPort <= new_port.val /\ new_port.val <= HighestPort
                   THEN port' = new_port.val
                   ELSE UNCHANGED port
    /\ UNCHANGED <<outVars, moneyVars, mapperVars, summaryVars, quit_flag, restart_flag, httpd,
                   servers, template, last_mtime>>

\* restart_flag.set()
SetRestart ==
    /\ pc.input = "set_restart"
    /\ restart_flag' = TRUE
    /\ pc' = [pc EXCEPT !.input = "read"]
    /\ UNCHANGED <<outVars, moneyVars, mapperVars, summaryVars, quit_flag, port, httpd, servers,
                   template, last_mtime, stdin>>

\* the server thread enters serve_forever: is_shut_down is cleared
ServeForever(k) ==
    /\ servers[k].state = "created"
    /\ servers' = [servers EXCEPT ![k].state = "serving", ![k].is_shut_down = FALSE]
    /\ UNCHANGED <<outVars, moneyVars, mapperVars, summaryVars, pc, quit_flag, restart_flag, port,
                   httpd, template, last_mtime, stdin>>

\* the serve loop, between two requests, sees the shutdown request and ends
ServeLoopEnds(k) ==
    /\ servers[k].state = "serving"
    /\ servers[k].shutdown_request
    /\ servers' = [servers EXCEPT ![k].state = "stopped", ![k].shutdown_request = FALSE,
                                  ![k].is_shut_down = TRUE]
    /\ UNCHANGED <<outVars, moneyVars, mapperVars, summaryVars, pc, quit_flag, restart_flag, port,
                   httpd, template, last_mtime, stdin>>

\* a client connects and the serve loop, in its own thread, starts to read
\* the request
ClientConnects(k) ==
    /\ servers[k].state = "serving"
    /\ ~servers[k].shutdown_request
    /\ servers' = [servers EXCEPT ![k].state = "handling"]
    /\ UNCHANGED <<outVars, moneyVars, mapperVars, summaryVars, pc, quit_flag, restart_flag, port,
                   httpd, template, last_mtime, stdin>>

\* the client sends its request or closes: the handler returns
ClientDone(k) ==
    /\ servers[k].state = "handling"
    /\ servers' = [servers EXCEPT ![k].state = "serving"]
    /\ UNCHANGED <<outVars, moneyVars, mapperVars, summaryVars, pc, quit_flag, restart_flag, port,
                   httpd, template, last_mtime, stdin>>

InDebugMode == pc.main \in LoopPositions \cup {"debug_mode", "initial_render", "initial_start", "listen"}

\* the template file is saved again, or removed
EditTemplate ==
    /\ InDebugMode
    /\ template # 0 /\ template < 1 + MaxEdits
    /\ template' = template + 1
    /\ UNCHANGED <<outVars, moneyVars, mapperVars, summaryVars, pc, quit_flag, restart_flag, port,
                   httpd, servers, last_mtime, stdin>>

DeleteTemplate ==
    /\ InDebugMode
    /\ template # 0
    /\ template' = 0
    /\ UNCHANGED <<outVars, moneyVars, mapperVars, summaryVars, pc, quit_flag, restart_flag, port,
                   httpd, servers, last_mtime, stdin>>

MainThread ==
    \/ EnterDebugMode \/ InitialRender \/ InitialStart \/ StartListener
    \/ LoopTest \/ Sleep \/ CheckRestart \/ ShutdownOld \/ AwaitOld \/ Rerender
    \/ StartNew \/ ReportRestart \/ CheckTemplate \/ RenderChanged \/ AfterLoop \/ AwaitLast \/ Goodbye

InputThread == ReadCommand \/ ReadPort \/ SetRestart

ServerThreads ==
    \/ \E k \in 1..Len(servers) : ServeForever(k)
    \/ \E k \in 1..Len(servers) : ServeLoopEnds(k)

Clients ==
    \/ \E k \in 1..Len(servers) : ClientConnects(k)
    \/ \E k \in 1..Len(servers) : ClientDone(k)

NextDebug ==
    \/ Main
    \/ DispatchDebug \/ DispatchDryRun \/ DispatchSend
    \/ DryRunRender \/ MakeEmailClient \/ SendSubject \/ SendRender \/ SendEmail
    \/ ExceptException \/ MainReturns
    \/ MainThread
    \/ InputThread
    \/ ServerThreads
    \/ Clients
    \/ Interrupt \/ EditTemplate \/ DeleteTemplate

SpecDebug == InitDebug /\ [][NextDebug]_vars

\* the main thread has a step to take: it is inside debug_mode and is not
\* waiting in httpd.shutdown() for a serve loop that has not ended
MainThreadCanStep ==
    /\ pc.main \in LoopPositions \cup {"debug_mode", "initial_render", "initial_start",
                                       "listen", "after_loop", "await_last", "goodbye"}
    /\ pc.main \in {"await_old", "await_last"} => shutdown_returns(servers[httpd])

\* the threads of the process are scheduled: each one that can take a step
\* eventually takes it (for the main thread this weak fairness is written
\* with its enabling condition); nothing makes an HTTP client, the user or
\* the editor of the template act
SpecDebugFair ==
    /\ SpecDebug
    /\ []<>(~MainThreadCanStep) \/ []<><<MainThread>>_vars
    /\ WF_vars(InputThread)
    /\ WF_vars(ServerThreads)

(***************************************************************************)
(* A run as the claims describe it                                         *)
(***************************************************************************)
\* C15: rendering does not change the summary: over any number of calls of
\* to_email_html and to_email_subject, the re-renders of debug mode included,
\* every field of the Summary stays as it was built, the order and content of
\* spendable_overviews and of budgets among them, and every render of the
\* summary on the same day receives the same context values.
C15_RenderKeepsSummary ==
    [][Built =>
          /\ summary' = summary
          /\ (Rendered /\ Rendered' /\ today' = today) => context' = context]_vars

\* the stored list is not in the order the context shows, after the second
\* render of debug mode
C15_Witness ==
    /\ Built /\ Rendered
    /\ renders >= 2
    /\ pc.main \in LoopPositions
    /\ summary.val.spendable_overviews # context.val.spendable_overviews
    /\ summary.val.budgets = context.val.budgets

\* a server of this process that is bound and has not finished its serve loop
Live(server) == server.state \in {"created", "serving", "handling"}

LoopDone(server) == server.state = "stopped" /\ server.is_shut_down

\* C17: in debug mode, for every interleaving of the input listener and the
\* polling loop, a restart fully stops the previous server before it starts a
\* new one: the serve loop of every earlier server has completed its shutdown
\* when a server is created, and never are two servers of this process
\* serving at the same time.
C17_RestartStopsPrevious ==
    [][/\ Len(servers') > Len(servers)
            => \A k \in 1..Len(servers) : LoopDone(servers[k])
       /\ Cardinality({k \in 1..Len(servers') : Live(servers'[k])}) <= 1]_vars

\* after "r" and the port 9000: the first server has stopped, the second one
\* serves on the new port
C17_Witness ==
    /\ Len(servers) = 2
    /\ LoopDone(servers[1]) /\ servers[1].port = DefaultPort
    /\ servers[2].state = "serving" /\ servers[2].port = 9000
    /\ httpd = 2

PollingLoopEnded == pc.main \in {"after_loop", "await_last", "goodbye", "exited"}

\* C18, the guarantees of order: once "q" is read the quit flag stays set,
\* the loop that has observed it starts no restart and no render, and the
\* process exits only after the loop has ended.
C18_QuitOrder ==
    [][/\ quit_flag => quit_flag'
       /\ PollingLoopEnded
            => /\ PollingLoopEnded'
               /\ renders' = renders
               /\ Len(servers') = Len(servers)
       /\ (pc.main # "exited" /\ pc'.main = "exited") => pc.main = "goodbye"]_vars

\* C18: in debug mode quit always ends the polling loop before the process
\* exits: once the input listener has read 'q' the polling loop eventually
\* stops, also when a restart request is pending or being handled.
C18_QuitStopsLoop == quit_flag ~> PollingLoopEnded

(***************************************************************************)
(* Claims about one budget row                                             *)
(***************************************************************************)
ManualDone == mapper = "Manual" /\ entities.exc = "none"

RecurringDone == mapper = "Recurring" /\ entities.exc = "none"

EndsWith(text, tail) ==
    /\ Len(text) >= Len(tail)
    /\ SubSeq(text, Len(text) - Len(tail) + 1, Len(text)) = tail

\* C23: Budget.from_manual_budget_row sets the description to
\* "<category> / <detail>" when the detail cell (column 2) is non-empty after
\* trimming, and to "<category>" alone when it is empty or whitespace-only;
\* the description never ends with a dangling " / ".
C23_ManualDescription ==
    ManualDone =>
        LET category == Trimmed(rows.row[1])
            detail == Trimmed(rows.row[3])
            description == entities.val[1].description
        IN  /\ detail # << >> => description = category \o <<" ", "/", " ">> \o detail
            /\ detail = << >> => description = category
            /\ ~EndsWith(description, <<" ", "/", " ">>)

\* a manual row whose detail cell holds only a blank has been built
C23_Witness ==
    /\ ManualDone
    /\ rows.row[3] = <<" ">>
    /\ entities.val[1].description = <<"F", "o", "o", "d">>

\* C24: the expense classification depends on the construction path and the
\* boolean flag only: a manual row is a RequiredPayment when its flag is
\* FALSE and Expendable when it is TRUE, a recurring row is a RequiredPayment
\* when its flag is FALSE and a Saving when it is TRUE; no manual item is a
\* Saving and no recurring item is Expendable; a manual item has no
\* subcategory, no funding account and no due date, a recurring item has a
\* subcategory and a due date.
C24_Classification ==
    /\ ManualDone =>
          LET item == entities.val[1]
          IN  /\ rows.row[4] = <<"F", "A", "L", "S", "E">> => item.expense_type = "RequiredPayment"
              /\ rows.row[4] = <<"T", "R", "U", "E">> => item.expense_type = "Expendable"
              /\ item.expense_type # "Saving"
              /\ item.subcategory = None
              /\ item.paid_from = None
              /\ item.next_approx_payment = NoDate
    /\ RecurringDone =>
          LET item == entities.val[1]
          IN  /\ rows.row[5] = <<"F", "A", "L", "S", "E">> => item.expense_type = "RequiredPayment"
              /\ rows.row[5] = <<"T", "R", "U", "E">> => item.expense_type = "Saving"
              /\ item.expense_type # "Expendable"
              /\ item.subcategory \notin {None, << >>}
              /\ item.next_approx_payment # NoDate

\* a recurring row flagged TRUE has been built as a Saving
C24_Witness ==
    /\ RecurringDone
    /\ rows.row[5] = <<"T", "R", "U", "E">>
    /\ entities.val[1].expense_type = "Saving"
    /\ entities.val[1].next_approx_payment = toordinal(2024, 3, 1)

\* the places, in table order, of the categories whose list holds the text
Holding(tbl, text) ==
    {n \in 1..Len(tbl) : \E k \in 1..Len(tbl[n].subs) : tbl[n].subs[k] = text}

\* the cells of a recurring row other than the subcategory are there and
\* parse
OtherwiseValid(row) ==
    /\ Len(row) >= 8
    /\ parse_money_cell(row, 2).exc = "none"
    /\ float_cell(row, 3).exc = "none"
    /\ strptime_date(Trimmed(row[8])).exc = "none"

\* C25: for every lookup table and every recurring row with otherwise valid
\* cells whose subcategory is in the list of at least one category of the
\* table, Budget.from_recurring_budget_row succeeds and returns a Budget
\* whose category is the first category, in table order, whose list contains
\* the subcategory.
C25_FirstCategoryWins ==
    (/\ mapper = "Recurring"
     /\ OtherwiseValid(rows.row)
     /\ Holding(lookup.val, Trimmed(rows.row[1])) # {})
        => /\ entities.exc = "none"
           /\ \E n \in Holding(lookup.val, Trimmed(rows.row[1])) :
                 /\ \A m \in Holding(lookup.val, Trimmed(rows.row[1])) : n <= m
                 /\ entities.val[1].category = lookup.val[n].cat

\* the cells of the categories block and the values of the table
CategoryValues(block, tbl) ==
    {block[r][j] : <<r, j>> \in {p \in (1..Len(block)) \X (1..4) : p[2] <= Len(block[p[1]])}}
        \cup UNION {{tbl[n].subs[k] : k \in 1..Len(tbl[n].subs)} : n \in 1..Len(tbl)}
        \cup {<< >>}

\* the text is a non-empty cell of a later row in a column headed by the category
UnderHeader(block, category, text) ==
    /\ text # << >>
    /\ \E r \in 2..Len(block) : \E j \in 1..Len(block[1]) :
          /\ j <= Len(block[r])
          /\ block[1][j] = category
          /\ block[r][j] = text

TableMatchesBlock(block, tbl) ==
    /\ {tbl[n].cat : n \in 1..Len(tbl)} = {block[1][j] : j \in 1..Len(block[1])}
    /\ \A n, m \in 1..Len(tbl) : tbl[n].cat = tbl[m].cat => n = m
    /\ \A n \in 1..Len(tbl) : \A text \in CategoryValues(block, tbl) :
          (\E k \in 1..Len(tbl[n].subs) : tbl[n].subs[k] = text)
              <=> UnderHeader(block, tbl[n].cat, text)
    /\ \A n \in 1..Len(tbl) : \A k \in 1..Len(tbl[n].subs) : tbl[n].subs[k] # << >>

\* C26: the category table built in main has exactly the cells of the first
\* row of the categories block as its categories, and a value is in a
\* category's list if and only if it is a non-empty cell of a later row in a
\* column headed by that category; empty cells enter no list, and the table
\* is built once and stays as built while recurring rows are resolved.
C26_TableBuiltOnce ==
    [][/\ lookup'.exc = "none" => TableMatchesBlock(rows'.categories, lookup'.val)
       /\ lookup # NotCalled => lookup' = lookup]_vars

\* a recurring row has been resolved against a table built from a block with
\* a repeated header, an empty cell and a row longer than the header
C26_Witness ==
    /\ RecurringDone
    /\ Len(rows.categories) = 3
    /\ Len(rows.categories[3]) = 4
    /\ Len(lookup.val) = 2
    /\ lookup.val[1].subs = <<<<"R", "e", "n", "t">>, <<"P", "o", "w", "e", "r">>, <<"F", "u", "e", "l">>>>

(***************************************************************************)
(* Claims about how a run ends                                             *)
(***************************************************************************)
\* the row indexes BudgetStats.from_rows reads
StatsOffsets == {0} \cup {k \in 3..31 : k % 2 = 1}

BrokenStats(block) ==
    \/ Len(block) < 32
    \/ \E k \in StatsOffsets : block[k + 1] = << >>

Failed == summary.exc \notin {"none", "not called"}

\* the run has ended with status 1 or has nothing left to do but that, and
\* has sent, printed, rendered and served nothing
Aborting ==
    /\ pc.main \in {"off", "exited"}
    /\ exit_status = (IF pc.main = "exited" THEN "1" ELSE "running")
    /\ pc.main = "off" => ENABLED ExceptException
    /\ emails = 0 /\ printed = 0 /\ renders = 0 /\ servers = << >>

\* C27: when the statistics block has fewer than 32 rows, or a row at one of
\* the fixed offsets has no cell, BudgetStats.from_rows raises (IndexError)
\* and returns no snapshot, and the run aborts as a fatal error.
C27_ShortStatsAbort ==
    (Ran /\ BrokenStats(sheet.stats)) =>
        /\ summary.exc = "IndexError"
        /\ Aborting

\* a run over a statistics block whose row 29 has no cell has ended with
\* status 1
C27_Witness ==
    /\ Len(sheet.stats) = 32
    /\ sheet.stats[30] = << >>
    /\ summary.exc = "IndexError"
    /\ exit_status = "1"

\* the sheet holds an amount that is no number, a recurring subcategory that
\* no category lists, a statistics block that is short, or an end date that
\* is no date
HasCoreError ==
    \/ \E i \in 1..Len(sheet.spendable) : ~CellParses(sheet.spendable[i][2])
    \/ UnlistedRecurringRow
    \/ BrokenStats(sheet.stats)
    \/ sheet.end_date[1][1] = <<"s", "o", "o", "n">>

\* C28: in a run of main every error raised by a core step (money parse
\* failure, unresolvable category, layout mismatch, invalid date string) is
\* surfaced: the run ends with exit status 1 and sends no email and prints
\* or serves no report; an email is sent at most once per run, only after
\* every ingestion step and the rendering have succeeded, and never in
\* dry-run or debug mode.
C28_ErrorsSurfaced ==
    [][/\ (Ran /\ HasCoreError)' => Failed'
       /\ Failed' => Aborting'
       /\ (Failed /\ pc'.main # pc.main) => (pc'.main = "exited" /\ exit_status' = "1")
       /\ emails' <= 1
       /\ emails' > emails =>
             /\ mode = "send"
             /\ summary.exc = "none"
             /\ context.exc = "none" /\ renders >= 1
       /\ mode' \in {"dry_run", "debug"} => emails' = 0]_vars

\* a run in send mode over a sheet whose recurring row names a subcategory
\* that no category lists has ended with status 1 and has sent nothing
C28_Witness ==
    /\ mode = "send"
    /\ UnlistedRecurringRow
    /\ summary.exc = "Exception"
    /\ exit_status = "1"
    /\ emails = 0

\* C29: in debug mode, whenever the polling loop has handled a restart
\* request and reports the restart as successful, a server of this process
\* is serving on the currently selected port, also when the port was left as
\* it was, and the loop's handle refers to that server.
C29_RestartReportedMeansServing ==
    pc.main = "restarted" =>
        /\ httpd # 0
        /\ Live(servers[httpd])
        /\ servers[httpd].port = port

====
